---- MODULE Spec2Model ----
(***************************************************************************)
(* Verification model of the remote sync engine of ai-toolbox:             *)
(*   - the file sync operations of coding/ssh/sync.rs and                  *)
(*     coding/wsl/sync.rs over a remote destination,                       *)
(*   - the sync lock of coding/ssh/session.rs,                             *)
(*   - the skills reconcilers of coding/ssh/skills_sync.rs and             *)
(*     coding/wsl/skills_sync.rs,                                          *)
(*   - the session manager and exec_command of coding/ssh/session.rs,      *)
(*   - sync_mappings, and the remote text file readers and writers,        *)
(*   - sync_mcp_to_ssh_claude of coding/ssh/mcp_sync.rs,                   *)
(*   - the auto-backup scheduler of settings/backup/auto_backup.rs.        *)
(* Each part has its own specification over its own variables; the other   *)
(* parts' variables stay at their initial values.                          *)
(***************************************************************************)
EXTENDS Integers, Sequences, FiniteSets, TLC

VARIABLES
    \* ---- file sync operations (SpecSync) ----
    op,          \* the operation under way
    backend,     \* "ssh" (protocol session) or "wsl" (shell bridge)
    localSrc,    \* "exists" | "missing" | "invalid" (glob that does not parse)
    remotePath,  \* the remote path argument, a sequence of characters
    pc,          \* position inside the operation
    cmds,        \* remote interactions issued so far, in order
    result,      \* what the operation returned
    target,      \* what is at the remote destination: Absent or a set of entries
    tmp,         \* what is at the temporary remote path
    preTree,     \* the destination as it was when the operation started
    todo,        \* entries the running remote step still has to process
    \* ---- sync lock (SpecLock) ----
    syncing,     \* SshSession.syncing
    callerPc,    \* per caller: "idle" | "holding" | "skipped" | "tried" | "released"
    lastTry,     \* per caller: result of its last try_acquire_sync_lock
    \* ---- skills reconciler (SpecSkills) ----
    skills,      \* the managed skills of this run, in input order
    central,     \* remote central copy per skill name
    marker,      \* remote .synced_hash content per skill name
    links,       \* what is at each <tool skills dir>/<skill>: "none" | "ok" | "other"
    links0,      \* the symlinks as they were when the current run started
    idx,         \* index of the skill the loop is at
    spc,         \* position of the reconciler: "idle" | "loop"
    all_errors,  \* names of the skills whose directory sync failed in this run
    history,     \* one record per finished run
    log,         \* the remote operations of the current (or last) run, in order
    failures,    \* remote failures so far
    \* ---- session manager (SpecSession) ----
    conn,        \* SshSession.conn: NoConn or the adopted connection
    handle,      \* SshSession.handle: "none" | "open" | "closed" (held, is_closed())
    status,      \* SshSession.status
    callPc,      \* position inside the current call, "idle" between calls
    call,        \* the current (or last) call and the state it started from
    ret,         \* what the last call returned
    events,      \* network interactions of the current (or last) call, in order
    ncalls,      \* calls made so far
    \* ---- sync_mappings (SpecMappings) ----
    mbackend,       \* "ssh" | "wsl": whose sync_mappings runs
    mappings,       \* the mappings argument
    module_filter,  \* "none" or a module name
    mi,             \* position of the loop in filtered_mappings
    mpc,            \* "loop" | "done"
    attempted,      \* the calls of sync_file_mapping so far: <<name, outcome>>
    sync_result,    \* the SyncResult being built, then returned
    \* ---- WSL skills reconciler, run side by side with the SSH one (SpecBoth) ----
    w_central,   \* central copy per skill name inside the distro
    w_marker,    \* .synced_hash content per skill name inside the distro
    w_links,     \* what is at each <tool skills dir>/<skill> inside the distro
    w_pc,        \* "idle" | "loop" | "returned" (left the loop with `?`)
    w_ret,       \* what the last run of sync_skills_to_wsl returned
    w_log,       \* the operations of its current (or last) run, in order
    \* ---- SshSession::exec_command (SpecExec) ----
    chan0,       \* the messages the channel delivers during the call, in order
    chan,        \* the messages not yet received
    stdout_buf,  \* bytes collected from Data messages
    stderr_buf,  \* bytes collected from ExtendedData messages with ext == 1
    exit_code,   \* Option<u32>: <<>> or <<the last exit status received>>
    xpc,         \* "start" | "wait" | "done"
    xret,        \* what exec_command returned
    \* ---- remote text files (SpecText) ----
    rop,         \* "check" | "read" | "write_read" | "mcp"
    rbackend,    \* "ssh" | "wsl": whose reader runs
    file,        \* the bytes of the remote file, NoFile when there is none
    content,     \* the text argument of check_file_encoding / write_remote_file
    rpc,         \* "start" | "read" | "convert" | "parse" | "done"
    rcmds,       \* the remote commands issued so far: <<kind, outcome>>
    rret,        \* what the operation returned
    \* ---- auto-backup scheduler (SpecBackup) ----
    b_settings,  \* the settings record the checks read
    last_auto_backup_time,  \* Option<String>: <<>> or <<the stored string>>
    b_now,       \* the clock, in days
    b_pc,        \* "off" | "check" | "sleep": position of the scheduler loop
    b_log        \* one record per finished check

syncVars == <<op, backend, localSrc, remotePath, pc, cmds, result, target, tmp,
              preTree, todo>>
lockVars == <<syncing, callerPc, lastTry>>
skillVars == <<skills, central, marker, links, links0, idx, spc, all_errors, history,
               log, failures>>
sessVars == <<conn, handle, status, callPc, call, ret, events, ncalls>>
mapVars == <<mbackend, mappings, module_filter, mi, mpc, attempted, sync_result>>
wslVars == <<w_central, w_marker, w_links, w_pc, w_ret, w_log>>
execVars == <<chan0, chan, stdout_buf, stderr_buf, exit_code, xpc, xret>>
textVars == <<rop, rbackend, file, content, rpc, rcmds, rret>>
backupVars == <<b_settings, last_auto_backup_time, b_now, b_pc, b_log>>
vars == <<syncVars, lockVars, skillVars, sessVars, mapVars, wslVars, execVars, textVars,
          backupVars>>

-----------------------------------------------------------------------------
(* Bounds *)
NFiles == 2        \* files in a local source tree
NCallers == 4      \* concurrent callers of the sync lock
MaxSkills == 2     \* managed skills in one run
MaxRuns == 2       \* consecutive reconciler runs
MaxFailures == 2   \* remote commands that fail during the reconciler runs
NConnIds == 2      \* distinct connection ids
MaxCalls == 3      \* calls made on one session
MaxMappings == 3   \* file mappings given to sync_mappings
MaxSyncCalls == 2  \* consecutive sync_directory calls with the same arguments
MaxMsgs == 3       \* messages a channel delivers during one exec_command
MaxSegments == 2   \* runs of equal characters a text is made of
MaxMembers == 2    \* top-level members of a remote JSON file
MaxChecks == 3     \* checks the backup scheduler makes
MaxDays == 3       \* days the clock runs

-----------------------------------------------------------------------------
(* Strings are sequences of one-character strings.                         *)

HOME == <<"$", "H", "O", "M", "E">>

IsWhitespace(c) == c \in {" ", "\n"}

RECURSIVE trim_start(_)
trim_start(s) ==
    IF s # <<>> /\ IsWhitespace(Head(s)) THEN trim_start(Tail(s)) ELSE s

RECURSIVE trim_end(_)
trim_end(s) ==
    IF s # <<>> /\ IsWhitespace(s[Len(s)])
    THEN trim_end(SubSeq(s, 1, Len(s) - 1))
    ELSE s

\* str::trim
trim(s) == trim_end(trim_start(s))

\* str::trim_end_matches('/')
RECURSIVE trim_end_slashes(_)
trim_end_slashes(s) ==
    IF s # <<>> /\ s[Len(s)] = "/"
    THEN trim_end_slashes(SubSeq(s, 1, Len(s) - 1))
    ELSE s

\* str::replace("~", "$HOME")
RECURSIVE replace_tilde(_)
replace_tilde(s) ==
    IF s = <<>> THEN <<>>
    ELSE (IF Head(s) = "~" THEN HOME ELSE <<Head(s)>>) \o replace_tilde(Tail(s))

\* The remote paths the operations are called with.
RemotePaths ==
    { <<>>,                                \* ""
      <<"/">>,                             \* "/"
      <<"~">>,                             \* "~"
      HOME,                                \* "$HOME"
      <<" ", "~", " ">>,                   \* " ~ "
      <<" ">>,                             \* " "
      <<"/", " ">>,                        \* "/ "
      <<"~", "/">>,                        \* "~/"
      <<"~", "/", "a">>,                   \* "~/a"
      <<"/", "a">>,                        \* "/a"
      <<"/", "a", "/">> }                  \* "/a/"

-----------------------------------------------------------------------------
(* Remote destination contents.  A tree is Absent or a set of entries      *)
(* <<file, version>> of files 1..NFiles; the empty set is an existing      *)
(* empty directory.                                                        *)

Absent == { <<0, "absent">> }                 \* nothing at the path
Files == 1..NFiles
OldTree == { <<f, "old">> : f \in Files }    \* what a previous sync left
NewTree == { <<f, "new">> : f \in Files }    \* the local source content

NoResult == [tag |-> "none", err |-> "", files |-> <<>>]
Ok(files) == [tag |-> "Ok", err |-> "", files |-> files]
Err(e) == [tag |-> "Err", err |-> e, files |-> <<>>]

\* format!("{} -> {}", local, remote)
Token(local, remote) == <<local, "->", remote>>

\* One remote interaction: a shell command (exec_command, wsl bash -c) or an
\* SFTP session.
Cmd(kind, sh, path, path2) == [kind |-> kind, sh |-> sh, path |-> path, path2 |-> path2]

\* ".tmp_<millis>" appended to the remote path
TmpSuffix == <<".tmp_ts">>

\* format!("{}.tmp_{}", remote_path, tmp_suffix) names a child of the target
\* directory when remote_path ends with a slash ("/a/" gives "/a/.tmp_<millis>")
tmp_inside_target(path) == path # <<>> /\ path[Len(path)] = "/"

\* the temporary directory as an entry of the target directory
TmpEntry == <<0, "tmp">>

\* Path::new(&expanded).exists(), and matches.is_empty() for a glob
local_exists_always(src) == TRUE
local_exists(src) == src = "exists"

\* The safety check of sync_directory and remove_remote_path.
is_dangerous_path(path) ==
    LET trimmed == trim(path)
    IN  trimmed = <<>> \/ trimmed = <<"/">> \/ trimmed = <<"~">> \/ trimmed = HOME

\* One step of a remote "rm -rf" over the entries still to delete.
RmStep(e) ==
    /\ e \in todo
    /\ target' = target \ {e}
    /\ todo' = todo \ {e}

notSync == <<lockVars, skillVars, sessVars, mapVars, wslVars, execVars, textVars, backupVars>>

-----------------------------------------------------------------------------
(* ssh/sync.rs sync_single_file: the whole call.                           *)

sync_single_file ==
    /\ op = "sync_single_file" /\ backend = "ssh" /\ pc = "start"
    /\ pc' = "done"
    /\ IF ~local_exists(localSrc)
       THEN /\ result' = Ok(<<>>)
            /\ UNCHANGED <<cmds, target>>
       ELSE LET mkdir == Cmd("exec", "mkdir_p_dirname", replace_tilde(remotePath), <<>>)
                sftp  == Cmd("sftp", "upload_file", remotePath, <<>>)
            IN  \E outcome \in {"mkdir_fail", "sftp_fail", "write_fail", "ok"} :
                  CASE outcome = "mkdir_fail" ->
                         /\ cmds' = Append(cmds, mkdir)
                         /\ result' = Err("Exec")
                         /\ UNCHANGED target
                    [] outcome = "sftp_fail" ->
                         /\ cmds' = cmds \o <<mkdir, sftp>>
                         /\ result' = Err("Upload")
                         /\ UNCHANGED target
                    [] outcome = "write_fail" ->
                         \* opened with CREATE | TRUNCATE, then the write failed
                         /\ cmds' = cmds \o <<mkdir, sftp>>
                         /\ result' = Err("Upload")
                         /\ target' = {<<1, "partial">>}
                    [] outcome = "ok" ->
                         /\ cmds' = cmds \o <<mkdir, sftp>>
                         /\ result' = Ok(<<Token("local", remotePath)>>)
                         /\ target' = {<<1, "new">>}
    /\ UNCHANGED <<op, backend, localSrc, remotePath, tmp, preTree, todo>>
    /\ UNCHANGED notSync

-----------------------------------------------------------------------------
(* ssh/sync.rs sync_directory, step by step: what a remote observer can    *)
(* see between the steps of the upload and of the swap command matters.    *)

\* expand, existence check, safety check, mkdir of the parent
sync_directory_start ==
    /\ op = "sync_directory" /\ backend = "ssh" /\ pc = "start"
    /\ IF ~local_exists(localSrc)
       THEN /\ result' = Ok(<<>>)
            /\ pc' = "done"
            /\ UNCHANGED cmds
       ELSE IF is_dangerous_path(remotePath)
       THEN /\ result' = Err("SafetyViolation")
            /\ pc' = "done"
            /\ UNCHANGED cmds
       ELSE /\ cmds' = Append(cmds,
                   Cmd("exec", "mkdir_p_dirname", replace_tilde(remotePath), <<>>))
            /\ \E ok \in BOOLEAN :
                 IF ok THEN pc' = "upload" /\ UNCHANGED result
                       ELSE pc' = "done" /\ result' = Err("Exec")
    /\ UNCHANGED <<op, backend, localSrc, remotePath, target, tmp, preTree, todo>>
    /\ UNCHANGED notSync

\* upload_dir: SFTP session, resolve the path, create the temporary directory
upload_dir_begin ==
    /\ op = "sync_directory" /\ backend = "ssh" /\ pc = "upload"
    /\ cmds' = Append(cmds, Cmd("sftp", "upload_dir", remotePath \o TmpSuffix, <<>>))
    /\ \E ok \in BOOLEAN :
         IF ok
         THEN \* create_dir (its error is ignored): the directory appears unless
              \* it is a child of a target that does not exist
              /\ IF ~tmp_inside_target(remotePath)
                 THEN tmp' = {} /\ UNCHANGED target
                 ELSE IF target # Absent
                 THEN tmp' = {} /\ target' = target \cup {TmpEntry}
                 ELSE UNCHANGED <<tmp, target>>
              /\ todo' = NewTree
              /\ pc' = "uploading"
              /\ UNCHANGED result
         ELSE /\ result' = Err("Upload")
              /\ pc' = "done"
              /\ UNCHANGED <<tmp, todo, target>>
    /\ UNCHANGED <<op, backend, localSrc, remotePath, preTree>>
    /\ UNCHANGED notSync

\* upload_dir_recursive writes one more file into the temporary directory
upload_dir_file ==
    /\ op = "sync_directory" /\ backend = "ssh" /\ pc = "uploading"
    /\ tmp # Absent
    /\ \E e \in todo :
         /\ tmp' = tmp \cup {e}
         /\ todo' = todo \ {e}
    /\ UNCHANGED <<op, backend, localSrc, remotePath, pc, cmds, result, target, preTree>>
    /\ UNCHANGED notSync

\* a file of the upload fails: upload_dir(..).await? returns the error
upload_dir_fail ==
    /\ op = "sync_directory" /\ backend = "ssh" /\ pc = "uploading"
    /\ todo # {}
    /\ result' = Err("Upload")
    /\ pc' = "done"
    /\ todo' = {}
    /\ UNCHANGED <<op, backend, localSrc, remotePath, cmds, target, tmp, preTree>>
    /\ UNCHANGED notSync

\* the swap command  rm -rf "T" && mv "T.tmp" "T"  is sent
swap_issue ==
    /\ op = "sync_directory" /\ backend = "ssh" /\ pc = "uploading"
    /\ todo = {}
    /\ cmds' = Append(cmds, Cmd("exec", "rm_rf_and_mv", replace_tilde(remotePath),
                                replace_tilde(remotePath) \o TmpSuffix))
    /\ \E delivered \in BOOLEAN :
         IF delivered
         THEN /\ pc' = "swap_rm"
              /\ todo' = IF target = Absent THEN {} ELSE target
         ELSE /\ pc' = "cleanup"
              /\ UNCHANGED todo
    /\ UNCHANGED <<op, backend, localSrc, remotePath, result, target, tmp, preTree>>
    /\ UNCHANGED notSync

\* rm -rf "T" deletes one more entry of the old tree
swap_rm_step ==
    /\ op = "sync_directory" /\ backend = "ssh" /\ pc = "swap_rm"
    /\ target # Absent
    /\ \E e \in todo :
         /\ RmStep(e)
         /\ tmp' = IF e = TmpEntry THEN Absent ELSE tmp
    /\ UNCHANGED <<op, backend, localSrc, remotePath, pc, cmds, result, preTree>>
    /\ UNCHANGED notSync

\* rm -rf "T" removes the emptied directory
swap_rm_dir ==
    /\ op = "sync_directory" /\ backend = "ssh" /\ pc = "swap_rm"
    /\ target # Absent /\ todo = {}
    /\ target' = Absent
    /\ UNCHANGED <<op, backend, localSrc, remotePath, pc, cmds, result, tmp, preTree, todo>>
    /\ UNCHANGED notSync

\* cp -r "T.tmp" "T" in place of the mv: the temporary directory stays
swap_cp ==
    /\ op = "sync_directory" /\ backend = "ssh" /\ pc = "swap_rm"
    /\ target = Absent /\ tmp # Absent
    /\ target' = tmp
    /\ pc' = "swap_reply"
    /\ UNCHANGED <<op, backend, localSrc, remotePath, cmds, result, preTree, todo, tmp>>
    /\ UNCHANGED notSync

\* mv "T.tmp" "T"
swap_mv ==
    /\ op = "sync_directory" /\ backend = "ssh" /\ pc = "swap_rm"
    /\ target = Absent /\ tmp # Absent
    /\ target' = tmp
    /\ tmp' = Absent
    /\ pc' = "swap_reply"
    /\ UNCHANGED <<op, backend, localSrc, remotePath, cmds, result, preTree, todo>>
    /\ UNCHANGED notSync

\* rm or mv exits nonzero, or the connection is lost while the command runs
swap_fail ==
    /\ op = "sync_directory" /\ backend = "ssh" /\ pc = "swap_rm"
    /\ pc' = "cleanup"
    /\ todo' = {}
    /\ UNCHANGED <<op, backend, localSrc, remotePath, cmds, result, target, tmp, preTree>>
    /\ UNCHANGED notSync

\* exec_command returns: exit status 0, or the reply is lost
swap_reply ==
    /\ op = "sync_directory" /\ backend = "ssh" /\ pc = "swap_reply"
    /\ \E ok \in BOOLEAN :
         IF ok THEN /\ result' = Ok(<<Token("local", remotePath)>>)
                    /\ pc' = "done"
               ELSE /\ pc' = "cleanup"
                    /\ UNCHANGED result
    /\ UNCHANGED <<op, backend, localSrc, remotePath, cmds, target, tmp, preTree, todo>>
    /\ UNCHANGED notSync

\* the swap failed: rm -rf "T.tmp" (its own failure is ignored), then the error
swap_cleanup ==
    /\ op = "sync_directory" /\ backend = "ssh" /\ pc = "cleanup"
    /\ cmds' = Append(cmds, Cmd("exec", "rm_rf", replace_tilde(remotePath) \o TmpSuffix, <<>>))
    /\ \E ok \in BOOLEAN :
         /\ tmp' = IF ok THEN Absent ELSE tmp
         /\ target' = IF ok /\ target # Absent THEN target \ {TmpEntry} ELSE target
    /\ result' = Err("Swap")
    /\ pc' = "done"
    /\ UNCHANGED <<op, backend, localSrc, remotePath, preTree, todo>>
    /\ UNCHANGED notSync

\* calls of sync_directory that got past the checks so far
SyncCalls == Cardinality({ k \in 1..Len(cmds) : cmds[k].sh = "mkdir_p_dirname" })

\* the caller repeats a successful sync_directory with the same arguments and
\* unchanged local content
sync_directory_again ==
    /\ op = "sync_directory" /\ backend = "ssh" /\ pc = "done"
    /\ result.tag = "Ok" /\ result.files # <<>>
    /\ SyncCalls < MaxSyncCalls
    /\ pc' = "start"
    /\ result' = NoResult
    /\ preTree' = target
    /\ UNCHANGED <<op, backend, localSrc, remotePath, cmds, target, tmp, todo>>
    /\ UNCHANGED notSync

-----------------------------------------------------------------------------
(* ssh/sync.rs sync_pattern_files: the whole call.                         *)

\* the elements of a set of file numbers, in increasing (glob) order
RECURSIVE InOrder(_)
InOrder(S) ==
    IF S = {} THEN <<>>
    ELSE LET m == CHOOSE x \in S : \A y \in S : x <= y
         IN  <<m>> \o InOrder(S \ {m})

\* the tokens of the files that were uploaded, in match order
SyncedTokens(synced) ==
    [i \in 1..Cardinality(synced) |-> Token(InOrder(synced)[i], remotePath)]

\* format!("{}/{}", remote_dir.trim_end_matches('/'), file_name)
remote_dest(f) == trim_end_slashes(remotePath) \o <<"/", ToString(f)>>

\* what one upload_file_via_sftp can do: succeed, fail before the remote file
\* is opened, or fail after it was truncated
UploadOutcomes == {"ok", "fail", "partial"}

\* the uploads of the loop, one per match, in match order
pattern_uploads(outs) ==
    [f \in 1..NFiles |-> Cmd("sftp_file", outs[f], remote_dest(f), <<>>)]

\* a loop that gives up at the first failed upload
upload_loop_fail_fast(outs) ==
    IF \E f \in Files : outs[f] # "ok"
    THEN Err("Upload")
    ELSE Ok(SyncedTokens(Files))

\* Ok(()) pushes the token, Err(e) is logged; then Ok(synced)
upload_loop_result(outs) ==
    Ok(SyncedTokens({ f \in Files : outs[f] = "ok" }))

sync_pattern_files ==
    /\ op = "sync_pattern_files" /\ backend = "ssh" /\ pc = "start"
    /\ pc' = "done"
    /\ IF localSrc = "invalid"
       THEN /\ result' = Err("Glob")
            /\ UNCHANGED <<cmds, target>>
       ELSE IF ~local_exists(localSrc)
       THEN /\ result' = Ok(<<>>)
            /\ UNCHANGED <<cmds, target>>
       ELSE LET mkdir == Cmd("exec", "mkdir_p", replace_tilde(remotePath), <<>>)
                sftp  == Cmd("sftp", "create_sftp_session", remotePath, <<>>)
                dir   == IF target = Absent THEN {} ELSE target
            IN  \E outcome \in {"mkdir_fail", "sftp_fail", "ok"} :
                  CASE outcome = "mkdir_fail" ->
                         /\ cmds' = Append(cmds, mkdir)
                         /\ result' = Err("Exec")
                         /\ UNCHANGED target
                    [] outcome = "sftp_fail" ->
                         /\ cmds' = cmds \o <<mkdir, sftp>>
                         /\ result' = Err("Sftp")
                         /\ target' = dir
                    [] outcome = "ok" ->
                         \* each match is uploaded on its own; a failure is
                         \* logged and skipped
                         \E outs \in [Files -> UploadOutcomes] :
                           LET synced == { f \in Files : outs[f] = "ok" }
                               truncated == { f \in Files : outs[f] = "partial" }
                           IN  /\ cmds' = cmds \o <<mkdir, sftp>> \o pattern_uploads(outs)
                               /\ result' = upload_loop_result(outs)
                               /\ target' =
                                    { e \in dir : e[1] \notin (synced \cup truncated) }
                                    \cup { <<f, "new">> : f \in synced }
                                    \cup { <<f, "partial">> : f \in truncated }
    /\ UNCHANGED <<op, backend, localSrc, remotePath, tmp, preTree, todo>>
    /\ UNCHANGED notSync

-----------------------------------------------------------------------------
(* wsl/sync.rs sync_pattern_files: the whole call, one bash command.       *)

\* The command is
\*   mkdir -p T && if [ -f B/P ]; then cp -f B/P T && echo synced;
\*   else shopt -s nullglob dotglob; files=B/P;
\*        if [ -n "$files" ]; then cp -f $files T 2>/dev/null && echo synced || true; fi; fi
\* The else branch exits 0 whatever cp did, whether or not anything matched.
wsl_sync_pattern_files ==
    /\ op = "sync_pattern_files" /\ backend = "wsl" /\ pc = "start"
    /\ pc' = "done"
    /\ cmds' = Append(cmds, Cmd("exec", "mkdir_p_cp_pattern", replace_tilde(remotePath), <<>>))
    /\ LET dir == IF target = Absent THEN {} ELSE target
           CopiedInto(copied) ==
               { e \in dir : e[1] \notin copied } \cup { <<f, "new">> : f \in copied }
       IN  \E outcome \in {"spawn_fail", "exit0", "nosuchfile", "silent", "stderr"} :
             CASE outcome = "spawn_fail" ->
                    /\ result' = Err("Spawn")
                    /\ UNCHANGED target
               [] outcome = "exit0" ->
                    \* cp copied all, some or none of the matches
                    \E copied \in (IF local_exists(localSrc) THEN SUBSET Files ELSE {{}}) :
                      /\ result' = Ok(<<Token("pattern", remotePath)>>)
                      /\ target' = CopiedInto(copied)
               [] outcome = "nosuchfile" ->
                    \* non-zero exit, stderr holds "No such file" or "cannot stat"
                    /\ result' = Ok(<<>>)
                    /\ UNCHANGED target
               [] outcome = "silent" ->
                    \* non-zero exit with empty stderr and stdout
                    /\ result' = Ok(<<>>)
                    /\ UNCHANGED target
               [] outcome = "stderr" ->
                    /\ result' = Err("Pattern")
                    /\ UNCHANGED target
    /\ UNCHANGED <<op, backend, localSrc, remotePath, tmp, preTree, todo>>
    /\ UNCHANGED notSync

-----------------------------------------------------------------------------
(* remove: ssh/sync.rs remove_remote_path and wsl/sync.rs remove_wsl_path. *)

\* what an rm -rf that did not complete may leave behind
AfterFailedRm(t) == IF t = Absent THEN {Absent} ELSE SUBSET t

remove_remote_path ==
    /\ op = "remove" /\ backend = "ssh" /\ pc = "start"
    /\ pc' = "done"
    /\ IF is_dangerous_path(remotePath)
       THEN /\ result' = Err("SafetyViolation")
            /\ UNCHANGED <<cmds, target>>
       ELSE /\ cmds' = Append(cmds, Cmd("exec", "rm_rf", replace_tilde(remotePath), <<>>))
            /\ \E ok \in BOOLEAN :
                 IF ok THEN /\ target' = Absent
                            /\ result' = Ok(<<>>)
                       ELSE /\ target' \in AfterFailedRm(target)
                            /\ result' = Err("Exec")
    /\ UNCHANGED <<op, backend, localSrc, remotePath, tmp, preTree, todo>>
    /\ UNCHANGED notSync

remove_wsl_path ==
    /\ op = "remove" /\ backend = "wsl" /\ pc = "start"
    /\ pc' = "done"
    /\ cmds' = Append(cmds, Cmd("exec", "rm_rf", replace_tilde(remotePath), <<>>))
    /\ \E ok \in BOOLEAN :
         IF ok THEN /\ target' = Absent
                    /\ result' = Ok(<<>>)
               ELSE /\ target' \in AfterFailedRm(target)
                    /\ result' = Err("Exec")
    /\ UNCHANGED <<op, backend, localSrc, remotePath, tmp, preTree, todo>>
    /\ UNCHANGED notSync

-----------------------------------------------------------------------------
(* wsl/sync.rs sync_directory, step by step.                               *)

\* the source check command, then the copy command is started
wsl_sync_directory_check ==
    /\ op = "sync_directory" /\ backend = "wsl" /\ pc = "start"
    /\ cmds' = Append(cmds, Cmd("exec", "test_e", <<"src">>, <<>>))
    /\ \E out \in {"exists", "notfound", "spawn_fail"} :
         /\ out = "exists" => localSrc = "exists"
         /\ CASE out = "spawn_fail" ->
                   /\ result' = Err("Exec") /\ pc' = "done"
              [] out = "notfound" ->
                   /\ result' = IF localSrc = "exists" THEN Err("NotAccessible")
                                                       ELSE Ok(<<>>)
                   /\ pc' = "done"
              [] out = "exists" ->
                   /\ pc' = "wsl_copy" /\ UNCHANGED result
    /\ UNCHANGED <<op, backend, localSrc, remotePath, target, tmp, preTree, todo>>
    /\ UNCHANGED notSync

\* mkdir -p "$(dirname T)" && rm -rf "T" && cp -rL "S" "T"  is started
wsl_copy_issue ==
    /\ op = "sync_directory" /\ backend = "wsl" /\ pc = "wsl_copy"
    /\ cmds' = Append(cmds, Cmd("exec", "mkdir_rm_rf_cp_rL", replace_tilde(remotePath),
                                <<"src">>))
    /\ \E spawned \in BOOLEAN :
         IF spawned
         THEN /\ pc' = "wsl_rm"
              /\ todo' = IF target = Absent THEN {} ELSE target
              /\ UNCHANGED result
         ELSE /\ pc' = "done"
              /\ result' = Err("Exec")
              /\ UNCHANGED todo
    /\ UNCHANGED <<op, backend, localSrc, remotePath, target, tmp, preTree>>
    /\ UNCHANGED notSync

\* rm -rf "T" deletes one more entry of the old tree
wsl_rm_step ==
    /\ op = "sync_directory" /\ backend = "wsl" /\ pc = "wsl_rm"
    /\ target # Absent
    /\ \E e \in todo : RmStep(e)
    /\ UNCHANGED <<op, backend, localSrc, remotePath, pc, cmds, result, tmp, preTree>>
    /\ UNCHANGED notSync

\* rm -rf "T" removes the emptied directory
wsl_rm_dir ==
    /\ op = "sync_directory" /\ backend = "wsl" /\ pc = "wsl_rm"
    /\ target # Absent /\ todo = {}
    /\ target' = Absent
    /\ UNCHANGED <<op, backend, localSrc, remotePath, pc, cmds, result, tmp, preTree, todo>>
    /\ UNCHANGED notSync

\* cp -rL creates the destination directory
wsl_cp_begin ==
    /\ op = "sync_directory" /\ backend = "wsl" /\ pc = "wsl_rm"
    /\ target = Absent
    /\ target' = {}
    /\ todo' = NewTree
    /\ pc' = "wsl_cp"
    /\ UNCHANGED <<op, backend, localSrc, remotePath, cmds, result, tmp, preTree>>
    /\ UNCHANGED notSync

\* cp -rL copies one more file straight into the destination
wsl_cp_file ==
    /\ op = "sync_directory" /\ backend = "wsl" /\ pc = "wsl_cp"
    /\ \E e \in todo :
         /\ target' = target \cup {e}
         /\ todo' = todo \ {e}
    /\ UNCHANGED <<op, backend, localSrc, remotePath, pc, cmds, result, tmp, preTree>>
    /\ UNCHANGED notSync

\* the command exits 0
wsl_cp_done ==
    /\ op = "sync_directory" /\ backend = "wsl" /\ pc = "wsl_cp"
    /\ todo = {}
    /\ result' = Ok(<<Token("local", remotePath)>>)
    /\ pc' = "done"
    /\ UNCHANGED <<op, backend, localSrc, remotePath, cmds, target, tmp, preTree, todo>>
    /\ UNCHANGED notSync

\* the command exits nonzero at any of its steps
wsl_copy_fail ==
    /\ op = "sync_directory" /\ backend = "wsl" /\ pc \in {"wsl_rm", "wsl_cp"}
    /\ result' = Err("Copy")
    /\ pc' = "done"
    /\ todo' = {}
    /\ UNCHANGED <<op, backend, localSrc, remotePath, cmds, target, tmp, preTree>>
    /\ UNCHANGED notSync

-----------------------------------------------------------------------------
(* The sync lock of SshSession (ssh/session.rs).                           *)

Callers == 1..NCallers

notLock == <<syncVars, skillVars, sessVars, mapVars, wslVars, execVars, textVars, backupVars>>

\* syncing.compare_exchange(false, true, SeqCst, SeqCst).is_ok()
try_acquire_blind(flag) == [ok |-> TRUE, flag |-> TRUE]
try_acquire_sync_lock(flag) == [ok |-> (flag = FALSE), flag |-> TRUE]

\* a release that leaves the flag as it is
release_keep(flag) == flag

\* syncing.store(false, SeqCst)
release_sync_lock(flag) == FALSE

\* a workflow starts: it tries the lock once and does not wait
TryAcquire(c) ==
    /\ callerPc[c] = "idle"
    /\ LET r == try_acquire_sync_lock(syncing)
       IN  /\ syncing' = r.flag
           /\ lastTry' = [lastTry EXCEPT ![c] = IF r.ok THEN "true" ELSE "false"]
           /\ callerPc' = [callerPc EXCEPT ![c] = IF r.ok THEN "holding" ELSE "skipped"]
    /\ UNCHANGED notLock

\* the holder finishes its workflow (on any exit path) and releases
Release(c) ==
    /\ callerPc[c] = "holding"
    /\ syncing' = release_sync_lock(syncing)
    /\ callerPc' = [callerPc EXCEPT ![c] = "idle"]
    /\ lastTry' = [lastTry EXCEPT ![c] = "none"]
    /\ UNCHANGED notLock

\* a caller that did not get the lock skips or defers its workflow
Skip(c) ==
    /\ callerPc[c] = "skipped"
    /\ callerPc' = [callerPc EXCEPT ![c] = "idle"]
    /\ UNCHANGED <<syncing, lastTry>>
    /\ UNCHANGED notLock

\* The two methods called by any caller at any time, holder or not.
call_try_acquire(c) ==
    /\ LET r == try_acquire_sync_lock(syncing)
       IN  /\ syncing' = r.flag
           /\ lastTry' = [lastTry EXCEPT ![c] = IF r.ok THEN "true" ELSE "false"]
    /\ callerPc' = [callerPc EXCEPT ![c] = "tried"]
    /\ UNCHANGED notLock

call_release(c) ==
    /\ syncing' = release_sync_lock(syncing)
    /\ callerPc' = [callerPc EXCEPT ![c] = "released"]
    /\ UNCHANGED lastTry
    /\ UNCHANGED notLock

LockInit ==
    /\ syncing = FALSE
    /\ callerPc = [c \in Callers |-> "idle"]
    /\ lastTry = [c \in Callers |-> "none"]

-----------------------------------------------------------------------------
(* The skills reconciler: ssh/skills_sync.rs sync_skills_to_ssh.           *)

\* the tool keys of BUILTIN_TOOLS that have a relative_skills_dir, in table order
ToolOrder == <<"t1", "t2">>
SkillTools == { ToolOrder[i] : i \in 1..Len(ToolOrder) }
Names == 1..MaxSkills

H0 == <<"h", "0">>      \* the hash of an earlier content
H1 == <<"h", "1">>      \* the hash of the current content
LocalHashes == { <<>>, H1 }   \* content_hash.as_deref().unwrap_or("")

first_tool_key_only == <<ToolOrder[1]>>
get_all_skill_tool_keys == ToolOrder

get_remote_tool_skills_dir(tool_key) ==
    IF tool_key \in SkillTools THEN <<"~/", tool_key, "/skills">> ELSE "None"

\* read_remote_file_raw:  if [ -f p ]; then cat p; else echo ''; fi
NoDir == "absent"              \* no central copy
NoFile == <<"(no file)">>      \* no marker file
read_remote_file_raw(m) == IF m = NoFile THEN <<"\n">> ELSE m

SkillAttrs ==
    [content_hash : LocalHashes, enabled_tools : SUBSET SkillTools,
     source_exists : BOOLEAN]

\* the managed skills of a run: skill i is named i
SkillLists ==
    UNION { { [i \in 1..k |-> [name |-> i,
                               content_hash |-> a[i].content_hash,
                               enabled_tools |-> a[i].enabled_tools,
                               source_exists |-> a[i].source_exists]]
              : a \in [1..k -> SkillAttrs] }
            : k \in 0..MaxSkills }

\* the names of the skills whose source directory exists only
names_with_source ==
    { skills[i].name : i \in { j \in 1..Len(skills) : skills[j].source_exists } }

\* skills.iter().map(|s| s.name.clone()).collect()
local_skill_names == { skills[i].name : i \in 1..Len(skills) }

Ev(kind, name, arg, out) == <<kind, name, arg, out>>

RECURSIVE Flatten(_)
Flatten(ss) ==
    IF ss = <<>> THEN <<>>
    ELSE IF Len(ss) = 1 THEN ss[1]
    ELSE LET h == Len(ss) \div 2
         IN  Flatten(SubSeq(ss, 1, h)) \o Flatten(SubSeq(ss, h + 1, Len(ss)))

Last(s) == s[Len(s)]

notSkills == <<syncVars, lockVars, sessVars, mapVars, wslVars, execVars, textVars, backupVars>>

\* the subsets of S of at most r elements
RECURSIVE UpTo(_, _)
UpTo(S, r) ==
    IF r <= 0 THEN { {} }
    ELSE LET smaller == UpTo(S, r - 1)
         IN  smaller \cup { F \cup {o} : F \in smaller, o \in S }

\* the sets of commands a step may see fail: the failing commands of the runs
\* stay within MaxFailures
FailSets(S) == UpTo(S, MaxFailures - failures)

(* Lines 49-109: configuration check, list the remote central directory,   *)
(* remove every remote entry that is no local skill.                       *)
reconcile_begin_step(config_on, load, list_fail, F) ==
    /\ spc = "idle" /\ Len(history) < MaxRuns
    /\   IF load = "config_err" \/ (config_on /\ load = "skills_err")
         THEN \* get_ssh_config_internal(...)?, get_managed_skills(...)? or
              \* resolve_central_repo_path(...)? returned Err
              /\ ~list_fail /\ F = {}
              /\ history' = Append(history, [ret |-> "Err", loaded |-> FALSE,
                                             enabled |-> load = "skills_err"])
              /\ log' = <<>>
              /\ UNCHANGED <<skills, central, marker, links, links0, idx, spc,
                             all_errors, failures>>
         ELSE IF ~config_on
         THEN /\ load = "ok" /\ ~list_fail /\ F = {}
              /\ history' = Append(history, [ret |-> "Ok", loaded |-> TRUE,
                                             enabled |-> FALSE])
              /\ log' = <<>>
              /\ UNCHANGED <<skills, central, marker, links, links0, idx, spc,
                             all_errors, failures>>
         ELSE LET existing_remote_skills ==
                      IF list_fail THEN {} ELSE { n \in Names : central[n] # NoDir }
                  stale == existing_remote_skills \ local_skill_names
                  rmOps == { <<"rm_link", n, t>> : n \in stale, t \in SkillTools }
                           \cup { <<"rm_central", n, "">> : n \in stale }
                  Out(o, G) == IF o \in G THEN "fail" ELSE "ok"
                  RemovalLog(n, G) ==
                      [i \in 1..Len(get_all_skill_tool_keys) |->
                          Ev("rm_link", n, get_all_skill_tool_keys[i],
                             Out(<<"rm_link", n, get_all_skill_tool_keys[i]>>, G))]
                      \o <<Ev("rm_central", n, "", Out(<<"rm_central", n, "">>, G))>>
              IN    /\ F \in FailSets(rmOps)
                    /\ failures + Cardinality(F) + (IF list_fail THEN 1 ELSE 0) <= MaxFailures
                    /\ failures' = failures + Cardinality(F) + (IF list_fail THEN 1 ELSE 0)
                    /\ links' = [p \in Names \X SkillTools |->
                                   IF p[1] \in stale /\ <<"rm_link", p[1], p[2]>> \notin F
                                   THEN "none" ELSE links[p]]
                    /\ central' = [n \in Names |->
                                   IF n \in stale /\ <<"rm_central", n, "">> \notin F
                                   THEN NoDir ELSE central[n]]
                    /\ marker' = [n \in Names |->
                                   IF n \in stale /\ <<"rm_central", n, "">> \notin F
                                   THEN NoFile ELSE marker[n]]
                    /\ log' = <<Ev("list", 0, "", IF list_fail THEN "fail" ELSE "ok")>>
                              \o Flatten([i \in 1..Cardinality(stale) |->
                                            RemovalLog(InOrder(stale)[i], F)])
                    /\ links0' = links
                    /\ idx' = 1
                    /\ spc' = "loop"
                    /\ all_errors' = <<>>
                    /\ UNCHANGED <<skills, history>>

\* the stale-skill removal commands that can fail in a run
BeginOps ==
    { <<"rm_link", n, t>> : n \in Names, t \in SkillTools }
    \cup { <<"rm_central", n, "">> : n \in Names }

reconcile_begin ==
    /\ \E config_on \in BOOLEAN, load \in {"ok", "config_err", "skills_err"},
          list_fail \in BOOLEAN, F \in FailSets(BeginOps) :
         reconcile_begin_step(config_on, load, list_fail, F)
    /\ UNCHANGED notSkills

(* Lines 114-197: the loop body for skills[idx].                           *)
\* the `continue` after a failed sync_directory: the loop goes on with the
\* next skill
next_skill_abort(i, sync_failed, n) == IF sync_failed THEN n + 1 ELSE i + 1
next_skill(i, sync_failed, n) == i + 1

\* the marker is written in the Ok arm of the match on sync_directory
writes_marker_regardless(needs_update, sync_ok) == needs_update
writes_marker(needs_update, sync_ok) == needs_update /\ sync_ok

\* the remote commands of one loop iteration that can fail
SkillOps ==
    { <<k, "">> : k \in {"read", "sync", "sync_lost", "sync_late", "write"} }
    \cup { <<k, t>> : k \in {"check", "create", "remove"}, t \in SkillTools }

Fails(G, k) == <<k, "">> \in G

reconcile_skill_step(F) ==
    /\ spc = "loop" /\ idx <= Len(skills)
    /\ LET skill == skills[idx]
           n == skill.name
       IN  IF ~skill.source_exists
           THEN /\ F = {}
                /\ log' = Append(log, Ev("skip", n, "", "ok"))
                /\ idx' = idx + 1
                /\ UNCHANGED <<central, marker, links, all_errors, failures>>
           ELSE
             LET remote_hash == trim(IF Fails(F, "read") THEN <<>>
                                     ELSE read_remote_file_raw(marker[n]))
                 local_hash == skill.content_hash
                 needs_update == remote_hash # local_hash
                 syncFail == { o \in F : o[1] \in {"sync", "sync_lost", "sync_late"} }
                 syncOk == syncFail = {}
                 linksReached == ~needs_update \/ syncOk
                 exists(t) == <<"check", t>> \notin F /\ links[<<n, t>>] = "ok"
                 Executed(o) ==
                     CASE o[1] = "read" -> TRUE
                       [] o[1] \in {"sync", "sync_lost", "sync_late"} -> needs_update
                       [] o[1] = "write" -> writes_marker(needs_update, syncOk)
                       [] o[1] = "check" -> linksReached /\ o[2] \in skill.enabled_tools
                       [] o[1] = "create" -> /\ linksReached
                                             /\ o[2] \in skill.enabled_tools
                                             /\ ~exists(o[2])
                       [] o[1] = "remove" -> linksReached /\ o[2] \notin skill.enabled_tools
                 EnabledEvents(t) ==
                     IF t \notin skill.enabled_tools
                        \/ get_remote_tool_skills_dir(t) = "None" THEN <<>>
                     ELSE <<Ev("check_link", n, t,
                               IF <<"check", t>> \in F THEN "fail"
                               ELSE IF links[<<n, t>>] = "ok" THEN "yes" ELSE "no")>>
                          \o (IF exists(t) THEN <<>>
                              ELSE <<Ev("create_link", n, t,
                                        IF <<"create", t>> \in F THEN "fail" ELSE "ok")>>)
                 DisabledEvents(t) ==
                     IF t \in skill.enabled_tools
                        \/ get_remote_tool_skills_dir(t) = "None" THEN <<>>
                     ELSE <<Ev("rm_link", n, t,
                               IF <<"remove", t>> \in F THEN "fail" ELSE "ok")>>
                 keys == get_all_skill_tool_keys
             IN  /\ \A o \in F : Executed(o)
                 /\ Cardinality(syncFail) <= 1
                 /\ failures' = failures + Cardinality(F)
                 /\ idx' = next_skill(idx, needs_update /\ ~syncOk, Len(skills))
                 /\ central' = [central EXCEPT ![n] =
                        IF ~needs_update \/ Fails(F, "sync") THEN @
                        ELSE IF Fails(F, "sync_lost") THEN NoDir
                        ELSE "new"]
                 /\ marker' = [marker EXCEPT ![n] =
                        IF ~needs_update \/ Fails(F, "sync") THEN @
                        ELSE IF ~syncOk \/ Fails(F, "write") THEN NoFile
                        ELSE local_hash]
                 /\ all_errors' = IF needs_update /\ ~syncOk
                                  THEN Append(all_errors, n) ELSE all_errors
                 /\ links' = [p \in Names \X SkillTools |->
                        IF p[1] # n \/ ~linksReached THEN links[p]
                        ELSE IF p[2] \in skill.enabled_tools
                        THEN (IF exists(p[2]) \/ <<"create", p[2]>> \in F
                              THEN links[p] ELSE "ok")
                        ELSE (IF <<"remove", p[2]>> \in F THEN links[p] ELSE "none")]
                 /\ log' = log
                      \o <<Ev("read_marker", n, marker[n],
                              IF Fails(F, "read") THEN "fail" ELSE "ok")>>
                      \o (IF ~needs_update THEN <<>>
                          ELSE <<Ev("sync_directory", n, "",
                                    IF syncOk THEN "ok" ELSE "fail")>>
                               \o (IF ~writes_marker(needs_update, syncOk) THEN <<>>
                                   ELSE <<Ev("write_marker", n, local_hash,
                                             IF Fails(F, "write") THEN "fail" ELSE "ok")>>))
                      \o (IF ~linksReached THEN <<>>
                          ELSE Flatten([i \in 1..Len(keys) |-> EnabledEvents(keys[i])])
                               \o Flatten([i \in 1..Len(keys) |-> DisabledEvents(keys[i])]))
    /\ UNCHANGED <<skills, links0, spc, history>>

reconcile_skill ==
    /\ \E F \in FailSets(SkillOps) : reconcile_skill_step(F)
    /\ UNCHANGED notSkills

\* if !all_errors.is_empty() { return Err(all_errors.join("; ")) } ... Ok(())
run_result(errs) == IF errs # <<>> THEN "Err" ELSE "Ok"

(* Lines 199-212: the result of the run.                                   *)
reconcile_end_step ==
    /\ spc = "loop" /\ idx > Len(skills)
    /\ history' = Append(history,
                         [ret |-> run_result(all_errors), loaded |-> TRUE,
                          enabled |-> TRUE])
    /\ spc' = "idle"
    /\ UNCHANGED <<skills, central, marker, links, links0, idx, all_errors, log, failures>>

reconcile_end ==
    /\ reconcile_end_step
    /\ UNCHANGED notSkills

\* The remote side before the first run: nothing mirrored yet, or every name
\* mirrored by an earlier version of the content.
RemoteFresh ==
    /\ central = [n \in Names |-> NoDir]
    /\ marker = [n \in Names |-> NoFile]
    /\ links = [p \in Names \X SkillTools |-> "none"]

RemoteMirrored ==
    /\ central = [n \in Names |-> "old"]
    /\ marker = [n \in Names |-> H0]
    /\ links = [p \in Names \X SkillTools |-> IF p[2] = ToolOrder[1] THEN "ok" ELSE "other"]

SkillsInit ==
    /\ skills \in SkillLists
    /\ RemoteFresh \/ RemoteMirrored
    /\ links0 = links
    /\ idx = 1
    /\ spc = "idle"
    /\ all_errors = <<>>
    /\ history = <<>>
    /\ log = <<>>
    /\ failures = 0

\* the reconciler is not running
SkillsIdle ==
    /\ skills = <<>>
    /\ RemoteFresh
    /\ links0 = links
    /\ idx = 1
    /\ spc = "idle"
    /\ all_errors = <<>>
    /\ history = <<>>
    /\ log = <<>>
    /\ failures = 0

-----------------------------------------------------------------------------
(* Session manager: ssh/session.rs SshSession.                             *)

notSession == <<syncVars, lockVars, skillVars, mapVars, wslVars, execVars, textVars, backupVars>>

\* conn: None
NoConn == [id |-> 0, host |-> "", auth_method |-> "", secret |-> ""]

\* The SSHConnection records connect() is called with.  secret is the
\* password, or the private key content/path, "" when none is given.
Conns == [id : 1..NConnIds, host : {"hA", "hB"},
          auth_method : {"password", "key", "agent"}, secret : {"", "s"}]

\* SessionStatus
Status(tag) == [tag |-> tag, reason |-> <<>>]
Failed(e) == [tag |-> "Failed", reason |-> e]

\* Result<(), String>
NoRet == [tag |-> "none", err |-> <<>>]
SOk == [tag |-> "Ok", err |-> <<>>]
SErr(e) == [tag |-> "Err", err |-> e]

\* format!("SSH 连接失败: {}", e)
WrapErr(e) == <<"SSH connect failed", e>>

\* one network interaction and how the network answered
SEv(kind, out) == <<kind, out>>

\* self.conn.as_ref().map(|c| &c.id) == Some(&conn.id)
same_target_never(stored, c) == FALSE
same_target(stored, c) == stored # NoConn /\ stored.id = c.id

\* is_alive: a handle is held and !handle.is_closed()
is_alive_if_held(h) == h # "none"
is_alive(h) == h = "open"

\* self.handle.take(): what is left in self.handle
take_keep(h) == h
take(h) == "none"

\* how the server may answer the authentication request that authenticate()
\* sends; "not_tried" when it returns before sending one
AuthOutcomes(c) ==
    IF \/ (c.auth_method = "password" /\ c.secret # "")
       \/ (c.auth_method = "key" /\ c.secret # "")
    THEN {"accepted", "rejected", "error"}
    ELSE {"not_tried"}

\* authenticate(session, conn): "ok" or the error
authenticate_lenient(c, out) == "ok"
authenticate(c, out) ==
    IF c.auth_method = "password" /\ c.secret # ""
    THEN CASE out = "accepted" -> "ok"
           [] out = "rejected" -> "password rejected"
           [] OTHER -> "password auth error"
    ELSE IF c.auth_method = "key"
    THEN IF c.secret = "" THEN "no private key"
         ELSE CASE out = "accepted" -> "ok"
                [] out = "rejected" -> "key rejected"
                [] OTHER -> "key auth error"
    ELSE "unsupported auth method"

\* the status connect() leaves after do_connect failed with e
status_on_failure_stale(e) == Status("Connecting")
status_on_failure(e) == Failed(WrapErr(e))

StartCall(name, c) ==
    /\ callPc = "idle"
    /\ ncalls < MaxCalls
    /\ ncalls' = ncalls + 1
    /\ call' = [name |-> name, arg |-> c, status0 |-> status,
                handle0 |-> handle, conn0 |-> conn]

\* the graceful close of disconnect(): sent only when a handle is held, its
\* result is ignored
CloseEvents ==
    IF handle # "none" THEN { <<SEv("close", "ok")>>, <<SEv("close", "fail")>> }
    ELSE { <<>> }

\* connect(conn) up to and including its call of self.disconnect()
ConnectEnter(c) ==
    IF same_target(conn, c) /\ is_alive(handle)
    THEN /\ status' = Status("Connected")
         /\ ret' = SOk
         /\ events' = <<>>
         /\ callPc' = "idle"
         /\ UNCHANGED <<conn, handle>>
    ELSE /\ \E ev \in CloseEvents : events' = ev
         /\ handle' = take(handle)
         /\ conn' = NoConn
         /\ status' = Status("Disconnected")
         /\ ret' = NoRet
         /\ callPc' = "connecting"

connect_call ==
    /\ \E c \in Conns : StartCall("connect", c) /\ ConnectEnter(c)
    /\ UNCHANGED notSession

\* self.conn = Some(conn.clone())
adopt_none(c) == NoConn
adopt(c) == c

\* self.status = Connecting; self.conn = Some(conn.clone())
connect_adopt ==
    /\ callPc = "connecting"
    /\ status' = Status("Connecting")
    /\ conn' = adopt(call.arg)
    /\ callPc' = "do_connect"
    /\ UNCHANGED <<handle, call, ret, events, ncalls>>
    /\ UNCHANGED notSession

\* a failure arm that puts the connection record of before the call back
ConnectFailRestore(e) ==
    /\ status' = status_on_failure(e)
    /\ ret' = SErr(WrapErr(e))
    /\ callPc' = "idle"
    /\ conn' = call.conn0
    /\ UNCHANGED handle

\* the Err arm of connect(): status Failed, the error is returned
ConnectFail(e) ==
    /\ status' = status_on_failure(e)
    /\ ret' = SErr(WrapErr(e))
    /\ callPc' = "idle"
    /\ UNCHANGED <<conn, handle>>

\* do_connect: client::connect bounded by the 30 s timeout
do_connect_establish ==
    /\ callPc = "do_connect"
    /\ \E out \in {"ok", "timeout", "error"} :
         /\ events' = Append(events, SEv("establish", out))
         /\ IF out = "ok"
            THEN /\ callPc' = "authenticate"
                 /\ UNCHANGED <<conn, handle, status, ret>>
            ELSE ConnectFail(out)
    /\ UNCHANGED <<call, ncalls>>
    /\ UNCHANGED notSession

\* do_connect: authenticate(&mut session, conn), then the Ok/Err arm of connect
do_connect_authenticate ==
    /\ callPc = "authenticate"
    /\ \E out \in AuthOutcomes(call.arg) :
         /\ events' = Append(events, SEv("auth", out))
         /\ IF authenticate(call.arg, out) = "ok"
            THEN /\ handle' = "open"
                 /\ status' = Status("Connected")
                 /\ ret' = SOk
                 /\ callPc' = "idle"
                 /\ UNCHANGED conn
            ELSE ConnectFail(authenticate(call.arg, out))
    /\ UNCHANGED <<call, ncalls>>
    /\ UNCHANGED notSession

ensure_connected_call ==
    /\ StartCall("ensure_connected", conn)
    /\ IF is_alive(handle)
       THEN /\ status' = Status("Connected")
            /\ ret' = SOk
            /\ events' = <<>>
            /\ UNCHANGED <<conn, handle, callPc>>
       ELSE IF conn = NoConn
       THEN /\ ret' = SErr(<<"no connection config">>)
            /\ events' = <<>>
            /\ UNCHANGED <<conn, handle, status, callPc>>
       ELSE ConnectEnter(conn)
    /\ UNCHANGED notSession

disconnect_call ==
    /\ StartCall("disconnect", NoConn)
    /\ \E ev \in CloseEvents : events' = ev
    /\ handle' = take(handle)
    /\ conn' = NoConn
    /\ status' = Status("Disconnected")
    /\ ret' = SOk
    /\ UNCHANGED callPc
    /\ UNCHANGED notSession

\* the network closes the connection: handle.is_closed() becomes true
network_drop ==
    /\ handle = "open"
    /\ handle' = "closed"
    /\ UNCHANGED <<conn, status, callPc, call, ret, events, ncalls>>
    /\ UNCHANGED notSession

\* SshSession::new()
SessionInit ==
    /\ conn = NoConn
    /\ handle = "none"
    /\ status = Status("Disconnected")
    /\ callPc = "idle"
    /\ call = [name |-> "new", arg |-> NoConn, status0 |-> Status("Disconnected"),
               handle0 |-> "none", conn0 |-> NoConn]
    /\ ret = NoRet
    /\ events = <<>>
    /\ ncalls = 0

-----------------------------------------------------------------------------
(* sync_mappings: ssh/sync.rs 196-231 and wsl/sync.rs 462-497.             *)

notMappings == <<syncVars, lockVars, skillVars, sessVars, wslVars, execVars, textVars, backupVars>>

Modules == {"m1", "m2"}

\* the fields of a mapping that sync_mappings reads; mapping i is named i
MappingLists ==
    UNION { [1..n -> [enabled : BOOLEAN, module : Modules]] : n \in 0..MaxMappings }

\* .filter(|m| m.enabled)
\* .filter(|m| module_filter.is_none() || Some(m.module.as_str()) == module_filter)
is_selected_any(m, filter) == TRUE
is_selected(m, filter) == m.enabled /\ (filter = "none" \/ m.module = filter)

\* filtered_mappings: the names of the selected mappings, in input order
RECURSIVE filtered_reversed(_, _, _)
filtered_reversed(ms, filter, i) ==
    IF i > Len(ms) THEN <<>>
    ELSE filtered_reversed(ms, filter, i + 1)
            \o (IF is_selected(ms[i], filter) THEN <<i>> ELSE <<>>)

RECURSIVE Filtered(_, _, _)
Filtered(ms, filter, i) ==
    IF i > Len(ms) THEN <<>>
    ELSE (IF is_selected(ms[i], filter) THEN <<i>> ELSE <<>>)
            \o Filtered(ms, filter, i + 1)

filtered_mappings == Filtered(mappings, module_filter, 1)

\* what sync_file_mapping can return for one mapping: Ok(vec![]), Ok(files),
\* Err(e); on WSL also the Err of expand_env_vars
MappingOutcomes ==
    IF mbackend = "ssh" THEN {"empty", "files", "err"}
    ELSE {"empty", "files", "err", "env_err"}

IsErrOutcome(out) == out \in {"err", "env_err"}

\* for mapping in filtered_mappings: where the loop goes after an iteration
next_mapping_abort(i, out, n) == IF IsErrOutcome(out) THEN n + 1 ELSE i + 1
next_mapping(i, out, n) == i + 1

\* one iteration of the loop: sync_file_mapping and the match on its result
sync_mappings_step ==
    /\ mpc = "loop"
    /\ mi <= Len(filtered_mappings)
    /\ LET name == filtered_mappings[mi]
       IN  \E out \in MappingOutcomes :
             /\ attempted' = Append(attempted, <<name, out>>)
             /\ sync_result' =
                  CASE out = "empty" ->
                         [sync_result EXCEPT !.skipped_files = Append(@, name)]
                    [] out = "files" ->
                         [sync_result EXCEPT !.synced_files = Append(@, name)]
                    [] OTHER ->
                         [sync_result EXCEPT !.errors = Append(@, name)]
             /\ mi' = next_mapping(mi, out, Len(filtered_mappings))
    /\ UNCHANGED <<mbackend, mappings, module_filter, mpc>>
    /\ UNCHANGED notMappings

\* SyncResult { success: errors.is_empty(), ... }
sync_mappings_return ==
    /\ mpc = "loop"
    /\ mi > Len(filtered_mappings)
    /\ sync_result' = [sync_result EXCEPT !.success = (sync_result.errors = <<>>)]
    /\ mpc' = "done"
    /\ UNCHANGED <<mbackend, mappings, module_filter, mi, attempted>>
    /\ UNCHANGED notMappings

EmptyResult ==
    [success |-> FALSE, synced_files |-> <<>>, skipped_files |-> <<>>, errors |-> <<>>]

MappingsInit ==
    /\ mbackend \in {"ssh", "wsl"}
    /\ mappings \in MappingLists
    /\ module_filter \in {"none"} \cup Modules
    /\ mi = 1
    /\ mpc = "loop"
    /\ attempted = <<>>
    /\ sync_result = EmptyResult

\* sync_skills_to_wsl is not running
WslIdle ==
    /\ w_central = [n \in Names |-> NoDir]
    /\ w_marker = [n \in Names |-> NoFile]
    /\ w_links = [p \in Names \X SkillTools |-> "none"]
    /\ w_pc = "idle" /\ w_ret = "none" /\ w_log = <<>>

\* sync_mappings is not running
MappingsIdle ==
    /\ mbackend = "ssh" /\ mappings = <<>> /\ module_filter = "none"
    /\ mi = 1 /\ mpc = "done" /\ attempted = <<>> /\ sync_result = EmptyResult

-----------------------------------------------------------------------------
(* wsl/skills_sync.rs sync_skills_to_wsl, run on the same skill list and   *)
(* with the same failing commands as sync_skills_to_ssh, step by step.     *)

notBoth == <<syncVars, lockVars, sessVars, mapVars, execVars, textVars, backupVars>>

\* Lines 137-179: configuration, skill list, removal of entries that are no
\* local skill.
wsl_begin_step(config_on, load, list_fail, F) ==
    /\ w_pc = "idle"
    /\ IF load = "config_err" \/ (config_on /\ load = "skills_err")
       THEN \* get_wsl_config(state).await?, get_managed_skills(...)? or
            \* resolve_central_repo_path(...)? returned Err
            /\ w_ret' = "Err" /\ w_log' = <<>>
            /\ UNCHANGED <<w_central, w_marker, w_links, w_pc>>
       ELSE IF ~config_on
       THEN /\ w_ret' = "Ok" /\ w_log' = <<>>
            /\ UNCHANGED <<w_central, w_marker, w_links, w_pc>>
       ELSE LET existing_wsl_skills ==
                    IF list_fail THEN {} ELSE { n \in Names : w_central[n] # NoDir }
                stale == existing_wsl_skills \ local_skill_names
                Out(o) == IF o \in F THEN "fail" ELSE "ok"
                RemovalLog(n) ==
                    [i \in 1..Len(get_all_skill_tool_keys) |->
                        Ev("rm_link", n, get_all_skill_tool_keys[i],
                           Out(<<"rm_link", n, get_all_skill_tool_keys[i]>>))]
                    \o <<Ev("rm_central", n, "", Out(<<"rm_central", n, "">>))>>
            IN  /\ w_links' = [p \in Names \X SkillTools |->
                                 IF p[1] \in stale /\ <<"rm_link", p[1], p[2]>> \notin F
                                 THEN "none" ELSE w_links[p]]
                /\ w_central' = [n \in Names |->
                                 IF n \in stale /\ <<"rm_central", n, "">> \notin F
                                 THEN NoDir ELSE w_central[n]]
                /\ w_marker' = [n \in Names |->
                                 IF n \in stale /\ <<"rm_central", n, "">> \notin F
                                 THEN NoFile ELSE w_marker[n]]
                /\ w_log' = <<Ev("list", 0, "", IF list_fail THEN "fail" ELSE "ok")>>
                            \o Flatten([i \in 1..Cardinality(stale) |->
                                          RemovalLog(InOrder(stale)[i])])
                /\ w_pc' = "loop"
                /\ w_ret' = "none"

\* Lines 181-233: the loop body for skills[idx]; sync_directory(...)? and
\* write_wsl_file(...)? leave the function on an error.
wsl_skill_step(F) ==
    IF w_pc # "loop" THEN UNCHANGED wslVars
    ELSE
    LET skill == skills[idx]
        n == skill.name
    IN  IF ~skill.source_exists
        THEN /\ w_log' = Append(w_log, Ev("skip", n, "", "ok"))
             /\ UNCHANGED <<w_central, w_marker, w_links, w_pc, w_ret>>
        ELSE
          LET wsl_hash == trim(IF Fails(F, "read") THEN <<>>
                               ELSE read_remote_file_raw(w_marker[n]))
              windows_hash == skill.content_hash
              needs_update == wsl_hash # windows_hash
              syncOk == \A o \in F : o[1] \notin {"sync", "sync_lost", "sync_late"}
              writeOk == ~Fails(F, "write")
              returned == needs_update /\ (~syncOk \/ ~writeOk)
              exists(t) == <<"check", t>> \notin F /\ w_links[<<n, t>>] = "ok"
              EnabledEvents(t) ==
                  IF t \notin skill.enabled_tools
                     \/ get_remote_tool_skills_dir(t) = "None" THEN <<>>
                  ELSE <<Ev("check_link", n, t,
                            IF <<"check", t>> \in F THEN "fail"
                            ELSE IF w_links[<<n, t>>] = "ok" THEN "yes" ELSE "no")>>
                       \o (IF exists(t) THEN <<>>
                           ELSE <<Ev("create_link", n, t,
                                     IF <<"create", t>> \in F THEN "fail" ELSE "ok")>>)
              DisabledEvents(t) ==
                  IF t \in skill.enabled_tools
                     \/ get_remote_tool_skills_dir(t) = "None" THEN <<>>
                  ELSE <<Ev("rm_link", n, t,
                            IF <<"remove", t>> \in F THEN "fail" ELSE "ok")>>
              keys == get_all_skill_tool_keys
          IN  /\ w_pc' = IF returned THEN "returned" ELSE "loop"
              /\ w_ret' = IF returned THEN "Err" ELSE w_ret
              /\ w_central' = [w_central EXCEPT ![n] =
                     IF ~needs_update \/ Fails(F, "sync") THEN @
                     ELSE IF Fails(F, "sync_lost") THEN NoDir
                     ELSE "new"]
              /\ w_marker' = [w_marker EXCEPT ![n] =
                     IF ~needs_update \/ Fails(F, "sync") THEN @
                     ELSE IF ~syncOk \/ ~writeOk THEN NoFile
                     ELSE windows_hash]
              /\ w_links' = [p \in Names \X SkillTools |->
                     IF p[1] # n \/ returned THEN w_links[p]
                     ELSE IF p[2] \in skill.enabled_tools
                     THEN (IF exists(p[2]) \/ <<"create", p[2]>> \in F
                           THEN w_links[p] ELSE "ok")
                     ELSE (IF <<"remove", p[2]>> \in F THEN w_links[p] ELSE "none")]
              /\ w_log' = w_log
                   \o <<Ev("read_marker", n, w_marker[n],
                           IF Fails(F, "read") THEN "fail" ELSE "ok")>>
                   \o (IF ~needs_update THEN <<>>
                       ELSE <<Ev("sync_directory", n, "",
                                 IF syncOk THEN "ok" ELSE "fail")>>
                            \o (IF ~writes_marker(needs_update, syncOk) THEN <<>>
                                ELSE <<Ev("write_marker", n, windows_hash,
                                          IF writeOk THEN "ok" ELSE "fail")>>))
                   \o (IF returned THEN <<>>
                       ELSE Flatten([i \in 1..Len(keys) |-> EnabledEvents(keys[i])])
                            \o Flatten([i \in 1..Len(keys) |-> DisabledEvents(keys[i])]))

\* Lines 235-255: Ok(()) after the loop
wsl_end_step ==
    /\ w_pc \in {"loop", "returned"}
    /\ w_pc' = "idle"
    /\ w_ret' = IF w_pc = "loop" THEN "Ok" ELSE w_ret
    /\ UNCHANGED <<w_central, w_marker, w_links, w_log>>

\* both reconcilers start a run on the same configuration and skill list
both_begin ==
    /\ \E config_on \in BOOLEAN, load \in {"ok", "config_err", "skills_err"},
          list_fail \in BOOLEAN, F \in FailSets(BeginOps) :
         /\ reconcile_begin_step(config_on, load, list_fail, F)
         /\ wsl_begin_step(config_on, load, list_fail, F)
    /\ UNCHANGED notBoth

\* both handle skills[idx] with the same commands failing
both_skill ==
    /\ \E F \in FailSets(SkillOps) :
         /\ reconcile_skill_step(F)
         /\ wsl_skill_step(F)
    /\ UNCHANGED notBoth

both_end ==
    /\ reconcile_end_step
    /\ wsl_end_step
    /\ UNCHANGED notBoth

\* the distro starts in the state of the remote host
WslInit ==
    /\ w_central = central
    /\ w_marker = marker
    /\ w_links = links
    /\ w_pc = "idle" /\ w_ret = "none" /\ w_log = <<>>

-----------------------------------------------------------------------------
(* ssh/session.rs SshSession::exec_command.                                *)

notExec == <<syncVars, lockVars, skillVars, sessVars, mapVars, wslVars, textVars, backupVars>>

\* Characters and bytes.  A character of more than one byte travels as one
\* unit; GBK_NI is the GBK encoding of a Chinese character, which is no valid
\* UTF-8.
FFFD == "U+FFFD"        \* the replacement character
NI == "U+4F60"          \* a non-ASCII character, in UTF-8
GBK_NI == "0xC4E3"      \* the same character in GBK: two bytes invalid in UTF-8
SOH == "U+0001"         \* an ASCII control character

\* String::from_utf8_lossy: every invalid byte becomes U+FFFD
from_utf8_lossy(bytes) ==
    Flatten([i \in 1..Len(bytes) |->
                IF bytes[i] = GBK_NI THEN <<FFFD, FFFD>> ELSE <<bytes[i]>>])

\* ChannelMsg: Data, ExtendedData (ext 1 is SSH_EXTENDED_DATA_STDERR),
\* ExitStatus, and the messages the loop does not look at
Chunks == { <<"x">>, <<" ">>, <<GBK_NI>> }
ChannelMsgs ==
    { <<"Data", d>> : d \in Chunks }
    \cup { <<"ExtendedData", d, 1>> : d \in Chunks }
    \cup { <<"ExtendedData", <<"x">>, 2>>, <<"ExitStatus", 0>>, <<"ExitStatus", 1>>,
           <<"Eof">> }

XOk(out) == [tag |-> "Ok", early |-> FALSE, code |-> 0, text |-> out]
XErr(code, detail) == [tag |-> "Err", early |-> FALSE, code |-> code, text |-> detail]
XEarly(what) == [tag |-> "Err", early |-> TRUE, code |-> 0, text |-> <<what>>]
XNone == [tag |-> "none", early |-> FALSE, code |-> 0, text |-> <<>>]

\* if ext == 1
ext_any(ext) == TRUE
ext_is_stderr(ext) == ext = 1

\* let detail = if !stderr.trim().is_empty() { stderr.trim() } else { stdout.trim() }
detail_of(stderr, stdout) ==
    IF trim(stderr) # <<>> THEN trim(stderr) ELSE trim(stdout)

\* lines 243-253: the handle, channel_open_session, exec
exec_open ==
    /\ xpc = "start"
    /\ \E out \in {"no_handle", "open_failed", "exec_failed", "ok"} :
         IF out = "ok"
         THEN xpc' = "wait" /\ UNCHANGED xret
         ELSE xpc' = "done" /\ xret' = XEarly(out)
    /\ UNCHANGED <<chan0, chan, stdout_buf, stderr_buf, exit_code>>
    /\ UNCHANGED notExec

\* lines 259-278: channel.wait() delivers one message
exec_wait ==
    /\ xpc = "wait" /\ chan # <<>>
    /\ LET msg == Head(chan)
       IN  /\ stdout_buf' = IF msg[1] = "Data" THEN stdout_buf \o msg[2] ELSE stdout_buf
           /\ stderr_buf' = IF msg[1] = "ExtendedData" /\ ext_is_stderr(msg[3])
                            THEN stderr_buf \o msg[2] ELSE stderr_buf
           /\ exit_code' = IF msg[1] = "ExitStatus" THEN <<msg[2]>> ELSE exit_code
    /\ chan' = Tail(chan)
    /\ UNCHANGED <<chan0, xpc, xret>>
    /\ UNCHANGED notExec

\* lines 260-262 and 280-293: channel.wait() returns None, the result
exec_return ==
    /\ xpc = "wait" /\ chan = <<>>
    /\ LET stdout == from_utf8_lossy(stdout_buf)
       IN  xret' = IF exit_code \in {<<>>, <<0>>} THEN XOk(stdout)
                   ELSE XErr(exit_code[1], detail_of(from_utf8_lossy(stderr_buf), stdout))
    /\ xpc' = "done"
    /\ UNCHANGED <<chan0, chan, stdout_buf, stderr_buf, exit_code>>
    /\ UNCHANGED notExec

ExecInit ==
    /\ chan0 \in UNION { [1..n -> ChannelMsgs] : n \in 0..MaxMsgs }
    /\ chan = chan0
    /\ stdout_buf = <<>> /\ stderr_buf = <<>> /\ exit_code = <<>>
    /\ xpc = "start" /\ xret = XNone

\* exec_command is not running
ExecIdle ==
    /\ chan0 = <<>> /\ chan = <<>>
    /\ stdout_buf = <<>> /\ stderr_buf = <<>> /\ exit_code = <<>>
    /\ xpc = "done" /\ xret = XNone

-----------------------------------------------------------------------------
(* Remote text files: check_file_encoding, read_remote_file and            *)
(* write_remote_file of ssh/sync.rs, read_wsl_file of wsl/sync.rs.         *)

notText == <<syncVars, lockVars, skillVars, sessVars, mapVars, wslVars, execVars, backupVars>>

MOJI == "U+6D63"        \* a character got by reading UTF-8 bytes as GBK

\* char::is_ascii_graphic, char::is_ascii_whitespace
is_ascii_whitespace(c) == IsWhitespace(c)
is_ascii_graphic(c) == c \notin {" ", "\n", SOH, NI, MOJI, FFFD, GBK_NI}

\* content.chars().take(n)
first_chars(text, n) == SubSeq(text, 1, IF Len(text) < n THEN Len(text) ELSE n)

SAMPLE == 256

\* if non_printable_count * 10 >= sample_len
over_threshold(non_printable_count, sample_len) ==
    non_printable_count * 10 >= sample_len

\* check_file_encoding: "ok", "not_utf8" (the message holds the iconv
\* command) or "binary"
check_file_encoding(text) ==
    IF \E i \in 1..Len(text) : text[i] = FFFD THEN "not_utf8"
    ELSE LET sample == first_chars(text, SAMPLE)
             non_printable_count ==
                 Cardinality({ i \in 1..Len(sample) :
                                 /\ ~is_ascii_graphic(sample[i])
                                 /\ ~is_ascii_whitespace(sample[i]) })
             sample_len == IF Len(sample) > 1 THEN Len(sample) ELSE 1
         IN  IF over_threshold(non_printable_count, sample_len)
             THEN "binary" ELSE "ok"

\* texts: up to MaxSegments runs of one character each
Counts == {0, 1, 9, 10, 25, 26, 230, 231, 256}
Rep(c, n) == [i \in 1..n |-> c]
RECURSIVE TextsOf(_, _)
TextsOf(units, k) ==
    IF k = 0 THEN { <<>> }
    ELSE { Rep(u, n) \o t : u \in units, n \in Counts, t \in TextsOf(units, k - 1) }

Chars == {"x", " ", SOH, NI, FFFD}
Bytes == Chars \cup {GBK_NI}

ROk(text) == [tag |-> "Ok", text |-> text, remedy |-> FALSE]
\* an error; remedy: the message holds the manual iconv command
RErr(kind, remedy) == [tag |-> "Err", text |-> <<kind>>, remedy |-> remedy]
RNone == [tag |-> "none", text |-> <<>>, remedy |-> FALSE]

\* what the reader got from `cat`: read_remote_file_raw / read_wsl_file_raw
Raw == from_utf8_lossy(read_remote_file_raw(file))

\* iconv -f GBK -t UTF-8 on the bytes of the file: GBK bytes become the
\* character; the bytes of a non-ASCII UTF-8 character are read as GBK, which
\* gives other characters (or an invalid sequence: outcome "err" of convert)
iconv_output ==
    [i \in 1..Len(file) |->
        IF file[i] = GBK_NI THEN NI
        ELSE IF file[i] \in {NI, FFFD} THEN MOJI
        ELSE file[i]]

\* check_file_encoding called on a text
check_call ==
    /\ rop = "check" /\ rpc = "start"
    /\ LET v == check_file_encoding(content)
       IN  rret' = IF v = "ok" THEN ROk(<<>>) ELSE RErr(v, v = "not_utf8")
    /\ rpc' = "done"
    /\ UNCHANGED <<rop, rbackend, file, content, rcmds>>
    /\ UNCHANGED notText

\* what exec_command_with_stdin("mkdir -p ... && cat > path", data) can do:
\* "ok"; "fail": the channel or the command could not be started; "cut": the
\* shell opened (and truncated) the file, then sending the data failed or
\* the command exited non-zero; "lost": as "cut", but the channel ended
\* without an exit status, which is taken for success
WriteOutcomes == {"ok", "fail", "cut", "lost"}

\* the file after a write of data
after_write(out, old, data) ==
    CASE out = "ok" -> data
      [] out = "fail" -> old
      [] OTHER -> <<>>

\* Some(0) | None => Ok(())
write_result(out) ==
    IF out \in {"ok", "lost"} THEN ROk(<<>>) ELSE RErr("write", FALSE)

\* ssh/sync.rs 319-334 write_remote_file: mkdir -p ... && cat > path
write_remote_file ==
    /\ rop = "write_read" /\ rpc = "start"
    /\ \E out \in WriteOutcomes :
         /\ rcmds' = Append(rcmds, <<"write", out>>)
         /\ file' = after_write(out, file, content)
         /\ IF write_result(out).tag = "Ok"
            THEN rpc' = "read" /\ UNCHANGED rret
            ELSE rpc' = "done" /\ rret' = write_result(out)
    /\ UNCHANGED <<rop, rbackend, content>>
    /\ UNCHANGED notText

\* read_remote_file 291-297 / read_wsl_file 581-587: the raw read and the
\* first validation
\* what the raw read can do: "ok"; "fail"; "cut" (exec_command only): the
\* channel ended before any data and without an exit status, which
\* exec_command returns as Ok of what it collected
ReadOutcomes ==
    {"ok", "fail"} \cup (IF rbackend = "ssh" THEN {"cut"} ELSE {})

\* where the caller of the reader goes on once it returned r
after_read(r) == IF rop = "mcp" /\ r.tag = "Ok" THEN "parse" ELSE "done"

read_raw ==
    /\ \/ rop \in {"read", "mcp"} /\ rpc = "start"
       \/ rop = "write_read" /\ rpc = "read"
    /\ \E out \in ReadOutcomes :
         /\ rcmds' = Append(rcmds, <<"cat", out>>)
         /\ LET got == IF out = "cut" THEN <<>> ELSE Raw
            IN  IF out = "fail"
                THEN rpc' = "done" /\ rret' = RErr("read", FALSE)
                ELSE IF check_file_encoding(got) = "ok"
                THEN rpc' = after_read(ROk(got)) /\ rret' = ROk(got)
                ELSE rpc' = "convert" /\ UNCHANGED rret
    /\ UNCHANGED <<rop, rbackend, file, content>>
    /\ UNCHANGED notText

\* what the iconv command can do: "spawn_err" (WSL: the process could not be
\* started), "err" (SSH: exec_command returned Err; WSL: non-zero status),
\* "ok" (output delivered)
ConvertOutcomes ==
    (IF rbackend = "wsl" THEN {"spawn_err"} ELSE {})
    \cup {"err"}
    \cup (IF file = NoFile THEN {} ELSE {"ok"})

\* the error of read_wsl_file when the converted text is still invalid
wsl_still_invalid == RErr("not_utf8_nor_gbk", FALSE)

\* read_remote_file 299-315 / read_wsl_file 589-626: the conversion attempt
convert ==
    /\ rpc = "convert"
    /\ \E out \in ConvertOutcomes :
         /\ rcmds' = Append(rcmds, <<"iconv", out>>)
         /\ LET converted == from_utf8_lossy(iconv_output)
            IN  rret' =
                  IF out = "spawn_err" THEN RErr("spawn", FALSE)
                  ELSE IF out = "err" THEN RErr("convert_failed", TRUE)
                  ELSE IF check_file_encoding(converted) = "ok" THEN ROk(converted)
                  ELSE IF rbackend = "ssh" THEN RErr("convert_failed", TRUE)
                  ELSE wsl_still_invalid
    /\ rpc' = after_read(rret')
    /\ UNCHANGED <<rop, rbackend, file, content>>
    /\ UNCHANGED notText

-----------------------------------------------------------------------------
(* ssh/mcp_sync.rs sync_mcp_to_ssh_claude over the remote ~/.claude.json.  *)
(* A JSON text is a sequence of units: "{", "}", "[", "]", whitespace, and *)
(* one unit per top-level member "key=value"; the unit NI is the member    *)
(* "n" whose value is that character, GBK_NI the same member in a file     *)
(* saved as GBK.                                                           *)

MemberUnits == {"a=1", "a=2", "mcpServers=1", "mcpServers=2", NI}

KeyOf(u) ==
    CASE u \in {"a=1", "a=2"} -> "a"
      [] u \in {"mcpServers=1", "mcpServers=2"} -> "mcpServers"
      [] OTHER -> "n"

ValOf(u) ==
    CASE u \in {"a=1", "mcpServers=1"} -> "1"
      [] u \in {"a=2", "mcpServers=2"} -> "2"
      [] OTHER -> u

UnitOf(k, v) == CHOOSE u \in MemberUnits : KeyOf(u) = k /\ ValOf(u) = v

\* the keys in the order the serializer writes them
KeyOrder == <<"a", "mcpServers", "n">>

\* parsed values: an object is a function from its keys to their values
JObject(members) == [kind |-> "object", members |-> members]
JOther == [kind |-> "array", members |-> <<>>]
JError == [kind |-> "error", members |-> <<>>]

\* the members of a unit sequence, a later member replacing an earlier one
\* of the same key
MembersOf(us) ==
    [k \in { KeyOf(us[i]) : i \in 1..Len(us) } |->
        ValOf(us[CHOOSE i \in 1..Len(us) :
                   /\ KeyOf(us[i]) = k
                   /\ \A j \in 1..Len(us) : KeyOf(us[j]) = k => j <= i])]

\* json5::from_str::<Value>
json5_from_str(text) ==
    LET t == SelectSeq(text, LAMBDA c : ~IsWhitespace(c))
    IN  IF t = <<"[", "]">> THEN JOther
        ELSE IF /\ Len(t) >= 2 /\ t[1] = "{" /\ t[Len(t)] = "}"
                /\ \A i \in 2..(Len(t) - 1) : t[i] \in MemberUnits
        THEN JObject(MembersOf(SubSeq(t, 2, Len(t) - 1)))
        ELSE JError

\* serde_json::to_string_pretty of an object
to_string_pretty(members) ==
    <<"{">>
    \o SelectSeq([i \in 1..Len(KeyOrder) |->
                    IF KeyOrder[i] \in DOMAIN members
                    THEN UnitOf(KeyOrder[i], members[KeyOrder[i]]) ELSE " "],
                 LAMBDA c : c # " ")
    \o <<"}">>

\* Map::insert(k, v)
insert(members, k, v) ==
    [x \in DOMAIN members \cup {k} |-> IF x = k THEN v ELSE members[x]]

\* the contents of ~/.claude.json before the call
Pad == Rep(" ", 12)
MemberSeqs ==
    UNION { [1..k -> MemberUnits \cup {GBK_NI}] : k \in 0..MaxMembers }
McpFiles ==
    {NoFile, <<>>, <<"\n">>}
    \cup { pad \o <<"{">> \o ms \o <<"}">> : pad \in {<<>>, Pad}, ms \in MemberSeqs }
    \cup { <<"[", "]">>, <<"{", "a=1">>, Pad \o <<"{", "a=1", SOH, "}">> }

\* lines 177-204: parse, replace mcpServers, serialize, write back
mcp_update ==
    /\ rop = "mcp" /\ rpc = "parse"
    /\ rpc' = "done"
    /\ LET existing_content == rret.text
           config == IF trim(existing_content) = <<>> THEN JObject(<<>>)
                     ELSE json5_from_str(existing_content)
       IN  IF config.kind = "error"
           THEN /\ rret' = RErr("parse", FALSE)
                /\ UNCHANGED <<file, content, rcmds>>
           ELSE IF config.kind # "object"
           THEN /\ rret' = RErr("not_object", FALSE)
                /\ UNCHANGED <<file, content, rcmds>>
           ELSE \E mcp_servers \in {"1", "2"}, out \in WriteOutcomes :
                  /\ content' = to_string_pretty(
                                    insert(config.members, "mcpServers", mcp_servers))
                  /\ rcmds' = Append(rcmds, <<"write", out>>)
                  /\ file' = after_write(out, file, content')
                  /\ rret' = write_result(out)
    /\ UNCHANGED <<rop, rbackend>>
    /\ UNCHANGED notText

McpInit ==
    /\ rop = "mcp" /\ rbackend = "ssh"
    /\ file \in McpFiles
    /\ content = <<>>
    /\ rpc = "start" /\ rcmds = <<>> /\ rret = RNone

TextInit ==
    /\ rop \in {"check", "read", "write_read"}
    /\ rbackend \in (IF rop = "read" THEN {"ssh", "wsl"} ELSE {"ssh"})
    /\ file \in (IF rop = "read" THEN TextsOf(Bytes, MaxSegments) \cup {NoFile}
                 ELSE {NoFile})
    /\ content \in (IF rop = "read" THEN { <<>> } ELSE TextsOf(Chars, MaxSegments))
    /\ rpc = "start" /\ rcmds = <<>> /\ rret = RNone

\* no text operation is under way
TextIdle ==
    /\ rop = "none" /\ rbackend = "ssh" /\ file = NoFile /\ content = <<>>
    /\ rpc = "done" /\ rcmds = <<>> /\ rret = RNone

-----------------------------------------------------------------------------
(* The auto-backup scheduler: settings/backup/auto_backup.rs.              *)

notBackup == <<syncVars, lockVars, skillVars, sessVars, mapVars, wslVars, execVars,
               textVars>>

\* the settings a check reads; destination stands for webdav.url or
\* local_backup_path, whichever the backup type uses
Intervals == {0, 1, 2}
BackupSettings ==
    [auto_backup_enabled : BOOLEAN, auto_backup_interval_days : Intervals,
     backup_type : {"webdav", "local", "other"}, destination : {"", "d"},
     auto_backup_max_keep : {0, 3}]

\* Utc::now().to_rfc3339()
to_rfc3339(t) == <<"rfc3339", t>>

\* DateTime::parse_from_rfc3339: <<>> for Err, <<t>> for Ok(t)
parse_from_rfc3339(str) == IF str[1] = "rfc3339" THEN <<str[2]>> ELSE <<>>

\* the values last_auto_backup_time may hold before the first check
LastTimes == { <<>>, << <<"not a time", 0>> >>, <<to_rfc3339(0)>> }

\* lines 128-142
is_backup_due(last_time, interval_days, now) ==
    IF last_time = <<>> THEN TRUE
    ELSE LET last_dt == parse_from_rfc3339(last_time[1])
         IN  IF last_dt = <<>> THEN TRUE
             ELSE now - last_dt[1] >= interval_days

\* lines 214-225: the query is sent and only its transport error is looked
\* at; "lost" is a statement that did not store the time yet returned Ok
UpdateOutcomes == {"ok", "fail", "lost"}

\* a check that stores the time whether or not the backup succeeded
stamp_regardless(backup, update, old, new) == IF update = "ok" THEN new ELSE old

\* perform_*_backup(..).await?; update_last_auto_backup_time(..).await?
stamp(backup, update, old, new) ==
    IF backup = "ok" /\ update = "ok" THEN new ELSE old

\* lines 31-104: one check, from read_settings to its return
check_and_perform_backup ==
    /\ b_pc = "check" /\ Len(b_log) < MaxChecks
    /\ b_pc' = "sleep"
    /\ \E read \in {"ok", "err"}, backup \in {"ok", "fail"},
          update \in UpdateOutcomes, cleanup \in {"ok", "fail"} :
         LET settings == b_settings
             due == is_backup_due(last_auto_backup_time,
                                  settings.auto_backup_interval_days, b_now)
             runs == /\ read = "ok"
                     /\ settings.auto_backup_enabled
                     /\ due
                     /\ settings.backup_type \in {"webdav", "local"}
                     /\ settings.destination # ""
             updates == runs /\ backup = "ok"
             cleans == updates /\ update # "fail" /\ settings.auto_backup_max_keep > 0
         IN  /\ ~runs => backup = "ok"
             /\ ~updates => update = "ok"
             /\ ~cleans => cleanup = "ok"
             /\ last_auto_backup_time' =
                    IF runs
                    THEN stamp(backup, update, last_auto_backup_time,
                               <<to_rfc3339(b_now)>>)
                    ELSE last_auto_backup_time
             /\ b_log' = Append(b_log,
                    [time |-> b_now,
                     before |-> last_auto_backup_time,
                     after |-> last_auto_backup_time',
                     read |-> read,
                     backup |-> IF runs THEN backup ELSE "none",
                     update |-> IF updates THEN update ELSE "none",
                     cleanup |-> IF cleans THEN cleanup ELSE "none",
                     ret |-> IF read = "err" \/ (runs /\ backup = "fail")
                                \/ (updates /\ update = "fail")
                             THEN "Err" ELSE "Ok"])
    /\ UNCHANGED <<b_settings, b_now>>
    /\ UNCHANGED notBackup

\* lines 20-27: tokio::time::sleep(600 s); the day may change meanwhile
scheduler_sleep ==
    /\ b_pc = "sleep"
    /\ b_pc' = "check"
    /\ \E d \in {0, 1} :
         /\ b_now + d <= MaxDays
         /\ b_now' = b_now + d
    /\ UNCHANGED <<b_settings, last_auto_backup_time, b_log>>
    /\ UNCHANGED notBackup

\* the scheduler after its initial delay
BackupInit ==
    /\ b_settings \in BackupSettings
    /\ last_auto_backup_time \in LastTimes
    /\ b_now \in {0, 1}
    /\ b_pc = "check"
    /\ b_log = <<>>

\* the scheduler is not running
BackupIdle ==
    /\ b_settings = [auto_backup_enabled |-> FALSE, auto_backup_interval_days |-> 0,
                     backup_type |-> "other", destination |-> "",
                     auto_backup_max_keep |-> 0]
    /\ last_auto_backup_time = <<>>
    /\ b_now = 0
    /\ b_pc = "off"
    /\ b_log = <<>>

-----------------------------------------------------------------------------
(* Specifications.                                                         *)

SyncInit ==
    /\ backend \in {"ssh", "wsl"}
    /\ op \in IF backend = "ssh"
              THEN {"sync_single_file", "sync_directory", "sync_pattern_files", "remove"}
              ELSE {"sync_directory", "sync_pattern_files", "remove"}
    /\ localSrc \in CASE op = "sync_pattern_files" /\ backend = "ssh" ->
                           {"exists", "missing", "invalid"}
                      [] op = "remove" -> {"missing"}
                      [] OTHER -> {"exists", "missing"}
    /\ remotePath \in RemotePaths
    /\ target \in {Absent, OldTree}
    /\ tmp = Absent
    /\ preTree = target
    /\ todo = {}
    /\ pc = "start"
    /\ cmds = <<>>
    /\ result = NoResult

\* no file sync operation is under way
SyncIdle ==
    /\ backend = "ssh" /\ op = "none" /\ localSrc = "missing"
    /\ remotePath = <<>>
    /\ target = Absent /\ tmp = Absent /\ preTree = Absent /\ todo = {}
    /\ pc = "done" /\ cmds = <<>> /\ result = NoResult

InitSync == SyncInit /\ LockInit /\ SkillsIdle /\ SessionInit /\ MappingsIdle /\ WslIdle /\ ExecIdle /\ TextIdle /\ BackupIdle
NextSync ==
    \/ sync_single_file
    \/ sync_pattern_files
    \/ wsl_sync_pattern_files
    \/ remove_remote_path
    \/ remove_wsl_path
    \/ sync_directory_start
    \/ upload_dir_begin
    \/ upload_dir_file
    \/ upload_dir_fail
    \/ swap_issue
    \/ swap_rm_step
    \/ swap_rm_dir
    \/ swap_mv
    \/ swap_fail
    \/ swap_reply
    \/ swap_cleanup
    \/ sync_directory_again
    \/ wsl_sync_directory_check
    \/ wsl_copy_issue
    \/ wsl_rm_step
    \/ wsl_rm_dir
    \/ wsl_cp_begin
    \/ wsl_cp_file
    \/ wsl_cp_done
    \/ wsl_copy_fail
SpecSync == InitSync /\ [][NextSync]_vars

InitLock == SyncIdle /\ LockInit /\ SkillsIdle /\ SessionInit /\ MappingsIdle /\ WslIdle /\ ExecIdle /\ TextIdle /\ BackupIdle
NextLock == \E c \in Callers : TryAcquire(c) \/ Release(c) \/ Skip(c)
SpecLock == InitLock /\ [][NextLock]_vars

NextLockApi == \E c \in Callers : call_try_acquire(c) \/ call_release(c)
SpecLockApi == InitLock /\ [][NextLockApi]_vars

InitSkills == SyncIdle /\ LockInit /\ SkillsInit /\ SessionInit /\ MappingsIdle /\ WslIdle /\ ExecIdle /\ TextIdle /\ BackupIdle
NextSkills == reconcile_begin \/ reconcile_skill \/ reconcile_end
SpecSkills == InitSkills /\ [][NextSkills]_vars

InitSession == SyncIdle /\ LockInit /\ SkillsIdle /\ SessionInit /\ MappingsIdle /\ WslIdle /\ ExecIdle /\ TextIdle /\ BackupIdle
NextSession ==
    \/ connect_call
    \/ connect_adopt
    \/ do_connect_establish
    \/ do_connect_authenticate
    \/ ensure_connected_call
    \/ disconnect_call
    \/ network_drop
SpecSession == InitSession /\ [][NextSession]_vars

InitMappings == SyncIdle /\ LockInit /\ SkillsIdle /\ SessionInit /\ MappingsInit /\ WslIdle /\ ExecIdle /\ TextIdle /\ BackupIdle
NextMappings == sync_mappings_step \/ sync_mappings_return
SpecMappings == InitMappings /\ [][NextMappings]_vars

InitBoth ==
    SyncIdle /\ LockInit /\ SkillsInit /\ SessionInit /\ MappingsIdle /\ WslInit /\ ExecIdle /\ TextIdle /\ BackupIdle
NextBoth == both_begin \/ both_skill \/ both_end
SpecBoth == InitBoth /\ [][NextBoth]_vars

InitExec ==
    SyncIdle /\ LockInit /\ SkillsIdle /\ SessionInit /\ MappingsIdle /\ WslIdle /\ ExecInit /\ TextIdle /\ BackupIdle
NextExec == exec_open \/ exec_wait \/ exec_return
SpecExec == InitExec /\ [][NextExec]_vars

InitText ==
    /\ SyncIdle /\ LockInit /\ SkillsIdle /\ SessionInit /\ MappingsIdle /\ WslIdle
    /\ ExecIdle /\ TextInit /\ BackupIdle
NextText == check_call \/ write_remote_file \/ read_raw \/ convert
SpecText == InitText /\ [][NextText]_vars

InitMcp ==
    /\ SyncIdle /\ LockInit /\ SkillsIdle /\ SessionInit /\ MappingsIdle /\ WslIdle
    /\ ExecIdle /\ McpInit /\ BackupIdle
NextMcp == read_raw \/ convert \/ mcp_update
SpecMcp == InitMcp /\ [][NextMcp]_vars

InitBackup ==
    /\ SyncIdle /\ LockInit /\ SkillsIdle /\ SessionInit /\ MappingsIdle /\ WslIdle
    /\ ExecIdle /\ TextIdle /\ BackupInit
NextBackup == check_and_perform_backup \/ scheduler_sleep
SpecBackup == InitBackup /\ [][NextBackup]_vars

\* a batch of either kind: one sync_mappings call or reconciler runs
InitBatch == InitSkills \/ InitMappings
NextBatch == NextSkills \/ NextMappings
SpecBatch == InitBatch /\ [][NextBatch]_vars

Init == InitSync \/ InitLock \/ InitSkills \/ InitSession \/ InitMappings \/ InitBoth \/ InitBatch
            \/ InitExec \/ InitText \/ InitMcp \/ InitBackup
Next == NextSync \/ NextLock \/ NextLockApi \/ NextSkills \/ NextSession \/ NextMappings \/ NextBoth \/ NextBatch
            \/ NextExec \/ NextText \/ NextMcp \/ NextBackup
Spec == Init /\ [][Next]_vars

-----------------------------------------------------------------------------
(* Claims about the file sync operations (SpecSync).                       *)

\* the remote paths the safety check is meant to reject, after trimming
DangerousPaths == { <<>>, <<"/">>, <<"~">>, HOME }

\* C1: during a run of sync_directory, at every intermediate step and after a
\* failed step, a lister of the remote target sees either the complete
\* pre-sync tree or the complete post-sync tree, never a missing, partially
\* deleted or partially written target.
C1_TargetIsPreOrPost ==
    op = "sync_directory" => target \in {preTree, NewTree}

\* C2: sync_directory called with a remote path that trims to "", "/", "~" or
\* "$HOME" issues no remote command and returns a SafetyViolation error, for
\* every local path and on either backend.
C2_DangerousSyncRejected ==
    (op = "sync_directory" /\ trim(remotePath) \in DangerousPaths)
        => /\ cmds = <<>>
           /\ pc = "done" => result = Err("SafetyViolation")

\* C3: remove called with a path that trims to "", "/", "~" or "$HOME" sends
\* no rm command and returns an error, on either backend.
C3_DangerousRemoveRejected ==
    (op = "remove" /\ trim(remotePath) \in DangerousPaths)
        => /\ cmds = <<>>
           /\ pc = "done" => result.tag = "Err"

SshSyncOps == {"sync_single_file", "sync_directory", "sync_pattern_files"}

\* C10 as stated: whenever the local source path does not exist, or the glob
\* yields no existing match, sync_single_file, sync_directory and
\* sync_pattern_files return success with an empty list and issue no remote
\* command.
C10_AbsentSourceIsEmptySuccess ==
    (backend = "ssh" /\ op \in SshSyncOps /\ localSrc # "exists")
        => /\ cmds = <<>>
           /\ pc = "done" => result = Ok(<<>>)

\* C10 amended: the same for a source path that does not exist and for a glob
\* that parses and matches nothing; a glob that does not parse returns an
\* error; in neither case is a remote command issued.
C10_MissingSourceIsEmptySuccess ==
    (backend = "ssh" /\ op \in SshSyncOps /\ localSrc # "exists")
        => /\ cmds = <<>>
           /\ pc = "done" =>
                result = IF localSrc = "invalid" THEN Err("Glob") ELSE Ok(<<>>)

C10_Witness ==
    /\ backend = "ssh" /\ op = "sync_pattern_files" /\ localSrc = "missing"
    /\ pc = "done" /\ result = Ok(<<>>) /\ cmds = <<>>

-----------------------------------------------------------------------------
(* Claims about the sync lock (SpecLock).                                  *)

Holders == { c \in Callers : callerPc[c] = "holding" }

\* C4: at most one workflow holds the sync lock at any time: between a
\* try_acquire_sync_lock() that returned true and the matching
\* release_sync_lock(), every other try_acquire_sync_lock() returns false at
\* once, under every interleaving of the callers.
C4_OneHolder ==
    /\ [](Cardinality(Holders) <= 1 /\ (syncing <=> Holders # {}))
    /\ [][\A c \in Callers :
            (/\ callerPc[c] = "idle" /\ callerPc'[c] # "idle"
             /\ \E d \in Callers \ {c} : callerPc[d] = "holding")
            => (callerPc'[c] = "skipped" /\ lastTry'[c] = "false")]_vars

C4_Witness ==
    \E c, d \in Callers :
        /\ callerPc[c] = "holding" /\ lastTry[c] = "true"
        /\ callerPc[d] = "skipped" /\ lastTry[d] = "false"

-----------------------------------------------------------------------------
(* Claims about the skills reconciler (SpecSkills).                        *)

\* a run that was not skipped by the configuration has just returned
RunDone ==
    /\ spc = "idle" /\ history # <<>>
    /\ Last(history).enabled /\ Last(history).loaded

\* the local skills the loop does not skip for a missing source
Processed == { i \in 1..Len(skills) : skills[i].source_exists }

\* an event of the given kind about skill n is in the log of the run
Logged(kind, n) ==
    \E k \in 1..Len(log) : log[k][1] = kind /\ log[k][2] = n

LoggedFor(kind, n, t) ==
    \E k \in 1..Len(log) : log[k][1] = kind /\ log[k][2] = n /\ log[k][3] = t

\* no command of the given kinds failed in the run
NoneFailed(kinds) ==
    \A k \in 1..Len(log) : log[k][1] \in kinds => log[k][4] # "fail"

LinkKinds == {"check_link", "create_link", "rm_link"}

\* the processed skills that have a recorded content hash
Hashed == { i \in Processed : skills[i].content_hash # <<>> }

\* C5: after sync_skills_to_ssh returned success, the marker of every skill
\* processed in that run reads as the skill's local content hash, whatever
\* remote commands failed.  Stated here for the skills that have a content
\* hash.
C5_MarkerEqualsHash ==
    (RunDone /\ Last(history).ret = "Ok")
        => \A i \in Hashed :
              trim(read_remote_file_raw(marker[skills[i].name]))
                  = skills[i].content_hash

\* C6: after a reconcile run completed, for every local skill S and every tool
\* T that supports skills, the link <T skills dir>/<S> to <central>/<S> exists
\* if and only if T is enabled for S.  Stated here for the skills whose source
\* exists and for runs in which no symlink command failed.
C6_LinkIffEnabled ==
    (RunDone /\ NoneFailed(LinkKinds))
        => \A i \in Processed : \A t \in SkillTools :
              links[<<skills[i].name, t>>] = "ok" <=> t \in skills[i].enabled_tools

\* C7: symlink reconciliation of a skill (a check for every enabled tool, a
\* removal for every other tool) is performed whether the skill's directory
\* transfer was skipped, succeeded or failed.
C7_LinksReconciledAnyway ==
    RunDone
        => \A i \in Processed : \A t \in SkillTools :
              IF t \in skills[i].enabled_tools
              THEN LoggedFor("check_link", skills[i].name, t)
              ELSE LoggedFor("rm_link", skills[i].name, t)

\* C8: when a run returned success and nothing changed locally, the run that
\* follows uploads nothing and leaves the links of the enabled tools in
\* place.  Stated here for the skills that have a content hash and for a
\* following run in which no command fails.
C8_SecondRunUploadsNothing ==
    (/\ spc = "idle" /\ Len(history) = 2
     /\ history[1].enabled /\ history[1].ret = "Ok"
     /\ history[2].enabled /\ history[2].loaded
     /\ \A k \in 1..Len(log) : log[k][4] # "fail")
        => /\ \A i \in Hashed : ~Logged("sync_directory", skills[i].name)
           /\ \A i \in Hashed : \A t \in skills[i].enabled_tools :
                 links0[<<skills[i].name, t>>] = "ok"
                     => links[<<skills[i].name, t>>] = "ok"

\* C9: a skill whose source exists is uploaded if and only if its remote
\* marker is absent or differs from its current hash; a skill never mirrored
\* is uploaded whatever its hash, an empty or missing one included.  Stated
\* here for the skills whose marker read did not fail.
C9_UploadIffMarkerDiffers ==
    RunDone
        => \A k \in 1..Len(log) :
              (log[k][1] = "read_marker" /\ log[k][4] = "ok")
                  => LET n == log[k][2]
                         m == log[k][3]
                     IN  Logged("sync_directory", n)
                            <=> (m = NoFile \/ m # skills[n].content_hash)

-----------------------------------------------------------------------------
(* Claims about the returned list (SpecSync).                              *)

\* the files of the remote directory that hold the local content
Transferred == { f \in Files : <<f, "new">> \in target }

\* C11: a sync operation returns success with an empty list only when the
\* local source did not exist: when the local source exists and the operation
\* returns success, the list is not empty; for a pattern sync it names exactly
\* the files that were transferred.
C11_EmptyListOnlyWhenMissing ==
    (/\ op \in SshSyncOps /\ pc = "done"
     /\ localSrc = "exists" /\ result.tag = "Ok")
        => /\ result.files # <<>>
           /\ (op = "sync_pattern_files" /\ backend = "ssh")
                 => result.files = SyncedTokens(Transferred)

-----------------------------------------------------------------------------
(* Claims about the session manager (SpecSession).                         *)

\* no call is in progress
Returned == callPc = "idle"

\* this step is the start of a call of the given name
Starts(name) == callPc = "idle" /\ ncalls' = ncalls + 1 /\ call'.name = name

\* the establishment attempts of the current (or last) call
Attempts == { k \in 1..Len(events) : events[k][1] = "establish" }

\* the last call attempted a connection and the attempt succeeded
AttemptSucceeded ==
    /\ \E k \in Attempts : events[k][2] = "ok"
    /\ Last(events) = SEv("auth", "accepted")

\* this step starts an establishment attempt
Establishing ==
    events' # events /\ events' # <<>> /\ Last(events')[1] = "establish"

C13_ConnectedOnlyAfterAuth ==
    /\ [][(status'.tag = "Connected" /\ status.tag # "Connected")
            => /\ \E k \in 1..Len(events') : events'[k] = SEv("establish", "ok")
               /\ Last(events') = SEv("auth", "accepted")
               /\ handle' = "open"]_vars
    /\ []((Returned /\ call.name = "connect" /\ Attempts # {} /\ ~AttemptSucceeded)
            => /\ status.tag = "Failed"
               /\ handle = "none"
               /\ ret = SErr(status.reason))
    /\ []((Returned /\ call.name = "connect" /\ AttemptSucceeded)
            => ret = SOk /\ status = Status("Connected"))

C13_Witness ==
    /\ Returned /\ call.name = "connect" /\ events # <<>>
    /\ Last(events) = SEv("auth", "not_tried")
    /\ status.tag = "Failed" /\ handle = "none" /\ ret = SErr(status.reason)

\* C14: ensure_connected() with a live handle returns success without any
\* connection attempt; with no live handle and a stored connection it makes
\* exactly one attempt with that connection and returns its outcome; with no
\* stored connection it fails without an attempt and leaves the status as it
\* was.
C14_EnsureConnected ==
    /\ call.name = "ensure_connected" => Cardinality(Attempts) <= 1
    /\ (Returned /\ call.name = "ensure_connected")
         => IF call.handle0 = "open"
            THEN ret = SOk /\ events = <<>>
            ELSE IF call.conn0 # NoConn
            THEN /\ Cardinality(Attempts) = 1
                 /\ call.arg = call.conn0 /\ conn = call.conn0
                 /\ IF AttemptSucceeded
                    THEN ret = SOk /\ status = Status("Connected")
                    ELSE ret.tag = "Err" /\ status = Failed(ret.err)
            ELSE /\ ret.tag = "Err" /\ events = <<>>
                 /\ status = call.status0 /\ conn = NoConn

C14_Witness ==
    /\ Returned /\ call.name = "ensure_connected"
    /\ call.handle0 = "closed" /\ call.conn0 # NoConn
    /\ Cardinality(Attempts) = 1 /\ ret = SOk

\* C15: from every session state, disconnect() ends with status
\* Disconnected, no handle held and no stored connection, whether or not the
\* graceful close succeeded.
C15_DisconnectResets ==
    call.name = "disconnect"
        => /\ status = Status("Disconnected")
           /\ handle = "none"
           /\ conn = NoConn
           /\ ret = SOk

C15_Witness ==
    /\ call.name = "disconnect"
    /\ call.status0 = Status("Connected") /\ call.handle0 = "closed"
    /\ events = <<SEv("close", "fail")>>
    /\ status = Status("Disconnected")

\* C16: the status seen between calls changes to Connected only by a connect
\* or reconnect that succeeded, to Failed only by one that failed, to
\* Disconnected only by disconnect; a network drop changes no status and
\* Connecting is never the status after a call returned.
C16_StatusTransitions ==
    /\ [](Returned => status.tag # "Connecting")
    /\ []((Returned /\ status # call.status0)
            => CASE status.tag = "Connected" ->
                      /\ call.name \in {"connect", "ensure_connected"}
                      /\ AttemptSucceeded /\ ret = SOk
                 [] status.tag = "Failed" ->
                      /\ call.name \in {"connect", "ensure_connected"}
                      /\ Attempts # {} /\ ~AttemptSucceeded /\ ret.tag = "Err"
                 [] status.tag = "Disconnected" -> call.name = "disconnect"
                 [] OTHER -> FALSE)
    /\ [][(ncalls' = ncalls /\ callPc = "idle") => status' = status]_vars

C16_Witness ==
    /\ Returned /\ call.name = "ensure_connected"
    /\ call.status0 = Status("Connected") /\ call.handle0 = "closed"
    /\ status.tag = "Failed"

\* C17 as stated: in every reachable state the status is Connected if and
\* only if the session holds a handle that is alive.
C17_ConnectedIffAlive ==
    status = Status("Connected") <=> handle = "open"

\* C17 amended: the status is Connected if and only if the session holds a
\* handle, and a live handle implies Connected; the handle held may have been
\* closed by the network since the status was set.
C17_ConnectedIffHandleHeld ==
    /\ status = Status("Connected") <=> handle # "none"
    /\ handle = "open" => status = Status("Connected")

C17_Witness ==
    /\ status = Status("Connected") /\ handle = "closed" /\ Returned

-----------------------------------------------------------------------------
(* Claims about sync_mappings (SpecMappings).                              *)

\* the mappings that are enabled and match the module filter
Wanted ==
    { i \in 1..Len(mappings) :
        mappings[i].enabled /\ (module_filter = "none" \/ mappings[i].module = module_filter) }

AttemptsOf(i) == { k \in 1..Len(attempted) : attempted[k][1] = i }

InSeq(x, sq) == \E k \in 1..Len(sq) : sq[k] = x

\* C18: sync_mappings attempts every mapping that is enabled and matches the
\* module filter exactly once and no other mapping, whatever earlier mappings
\* returned; a mapping that failed is recorded in errors, and success is
\* reported exactly when errors is empty.
C18_EveryMappingAttempted ==
    /\ \A i \in 1..Len(mappings) :
         Cardinality(AttemptsOf(i)) <= (IF i \in Wanted THEN 1 ELSE 0)
    /\ mpc = "done"
         => /\ \A i \in Wanted : Cardinality(AttemptsOf(i)) = 1
            /\ \A k \in 1..Len(attempted) :
                 IsErrOutcome(attempted[k][2]) <=> InSeq(attempted[k][1], sync_result.errors)
            /\ sync_result.success <=> sync_result.errors = <<>>

C18_Witness ==
    /\ mpc = "done" /\ module_filter # "none"
    /\ Len(mappings) = 3 /\ Cardinality(Wanted) = 2
    /\ Len(attempted) = 2 /\ attempted[1][2] = "err" /\ attempted[2][2] = "files"
    /\ Len(sync_result.errors) = 1 /\ ~sync_result.success

-----------------------------------------------------------------------------
(* Claims about failures in the skills reconciler (SpecSkills).            *)

\* the skills whose directory sync failed in the run, in list order
RECURSIVE FailedSyncs(_)
FailedSyncs(k) ==
    IF k > Len(log) THEN <<>>
    ELSE (IF log[k][1] = "sync_directory" /\ log[k][4] = "fail"
          THEN <<log[k][2]>> ELSE <<>>) \o FailedSyncs(k + 1)

-----------------------------------------------------------------------------
(* Claims about the two skills reconcilers (SpecBoth).                     *)

\* the skills a run has handled, according to a log
ProcessedIn(lg) ==
    { lg[k][2] : k \in { j \in 1..Len(lg) : lg[j][1] \in {"skip", "read_marker"} } }

\* C20: given the same skill list and the same failing transfers and marker
\* writes, the WSL reconciler and the SSH reconciler process the same skills
\* (a failure on one skill does not keep later skills from being processed)
\* and leave the same markers and symlinks.  Stated here for the first run,
\* which both start from the same remote state.
C20_SameFailureContract ==
    (spc = "idle" /\ w_pc = "idle" /\ Len(history) = 1)
        => /\ ProcessedIn(w_log) = ProcessedIn(log)
           /\ w_marker = marker
           /\ w_links = links

-----------------------------------------------------------------------------
(* Claims about the order of remote operations in a batch (SpecBatch).     *)

\* positions in the log of operations of the skill loop (operations on a
\* local skill; the removal step before the loop works on other names)
LoopOps == { k \in 1..Len(log) : log[k][2] \in local_skill_names }

\* C21: within one batch remote operations are issued in input order, one
\* after the other: the calls of sync_mappings follow the input order of the
\* mappings, each mapping's operations before those of the next, and in the
\* skill loop every operation of skill i precedes every operation of skill
\* i+1; each operation has returned before the next one is issued.
C21_InputOrderSequential ==
    /\ \A j, k \in 1..Len(attempted) :
           j < k => attempted[j][1] < attempted[k][1]
    /\ \A j, k \in LoopOps :
           j < k => log[j][2] <= log[k][2]
    /\ \A k \in 1..Len(log) : log[k][4] \in {"ok", "fail", "yes", "no"}
    /\ \A k \in 1..Len(attempted) : attempted[k][2] \in {"empty", "files", "err", "env_err"}

\* a run that issued operations for two skills, the first one's upload failing
C21_Witness ==
    /\ spc = "idle" /\ history # <<>>
    /\ Ev("sync_directory", 1, "", "fail") \in { log[k] : k \in 1..Len(log) }
    /\ \E k \in LoopOps : log[k][2] = 2 /\ log[k][1] = "create_link"

-----------------------------------------------------------------------------
(* Claims about the swap step of sync_directory (SpecSync).                *)

\* C22: when the swap step of sync_directory fails, the temporary remote
\* path is removed before the error is returned (the removal command is the
\* last remote interaction of the call), the error differs from the one of a
\* failed upload, and nothing is left at the temporary path.
C22_SwapFailureRemovesTmp ==
    (/\ op = "sync_directory" /\ backend = "ssh" /\ pc = "done"
     /\ result.tag = "Err" /\ result.err = "Swap")
        => /\ cmds # <<>>
           /\ Last(cmds) = Cmd("exec", "rm_rf",
                               replace_tilde(remotePath) \o TmpSuffix, <<>>)
           /\ result # Err("Upload")
           /\ tmp = Absent

-----------------------------------------------------------------------------
(* Claims about repeated sync_directory calls (SpecSync).                  *)

-----------------------------------------------------------------------------
(* Claims about exec_command (SpecExec).                                   *)

\* what the channel delivered during the call, from the message list
RECURSIVE DataOf(_, _)
DataOf(msgs, wanted) ==
    IF msgs = <<>> THEN <<>>
    ELSE (IF <<msgs[1][1], Len(msgs[1])>> = <<wanted, 2>>
             \/ (wanted = "stderr" /\ msgs[1][1] = "ExtendedData" /\ msgs[1][3] = 1)
          THEN msgs[1][2] ELSE <<>>) \o DataOf(Tail(msgs), wanted)

RECURSIVE ExitOf(_)
ExitOf(msgs) ==
    IF msgs = <<>> THEN <<>>
    ELSE IF Last(msgs)[1] = "ExitStatus" THEN <<Last(msgs)[2]>>
    ELSE ExitOf(SubSeq(msgs, 1, Len(msgs) - 1))

SentStdout == from_utf8_lossy(DataOf(chan0, "Data"))
SentStderr == from_utf8_lossy(DataOf(chan0, "stderr"))
ExecReturned == xpc = "done" /\ xret.tag # "none" /\ ~xret.early

\* C24 as stated: exec_command returns success with the collected stdout
\* when the exit status is 0 or the channel closes without one; with a
\* nonzero status it returns an error whose detail is the trimmed stderr when
\* stderr is non-empty and otherwise the trimmed stdout; extended data other
\* than stderr is ignored.
C24_ExecResult ==
    ExecReturned =>
        IF ExitOf(chan0) \in {<<>>, <<0>>}
        THEN xret = XOk(SentStdout)
        ELSE xret = XErr(ExitOf(chan0)[1],
                         IF SentStderr # <<>> THEN trim(SentStderr)
                         ELSE trim(SentStdout))

\* C24 amended: the same, with the detail being the trimmed stderr when the
\* trimmed stderr is non-empty, and the trimmed stdout otherwise.
C24_ExecResultTrimmed ==
    ExecReturned =>
        IF ExitOf(chan0) \in {<<>>, <<0>>}
        THEN xret = XOk(SentStdout)
        ELSE xret = XErr(ExitOf(chan0)[1],
                         IF trim(SentStderr) # <<>> THEN trim(SentStderr)
                         ELSE trim(SentStdout))

\* a nonzero exit with output on stdout, on stderr and on another stream
C24_Witness ==
    /\ ExecReturned /\ xret.tag = "Err"
    /\ chan0 = << <<"ExtendedData", <<"x">>, 2>>, <<"ExtendedData", <<" ">>, 1>>,
                 <<"ExitStatus", 1>> >>

-----------------------------------------------------------------------------
(* Claims about remote text files (SpecText).                              *)

\* the characters among the first 256 that are neither printable nor
\* whitespace
NonPrintable(text) ==
    { i \in 1..Len(first_chars(text, SAMPLE)) :
        ~is_ascii_graphic(text[i]) /\ ~is_ascii_whitespace(text[i]) }

HasFFFD(text) == \E i \in 1..Len(text) : text[i] = FFFD

\* C25: check_file_encoding rejects a text if and only if it contains U+FFFD
\* or strictly more than 10% of its first 256 characters are neither
\* printable nor whitespace; exactly 10% or fewer and no U+FFFD is accepted,
\* and so is the empty text.
C25_RejectsIffOverTenPercent ==
    (rop = "check" /\ rpc = "done")
        => (rret.tag = "Err"
              <=> \/ HasFFFD(content)
                  \/ Cardinality(NonPrintable(content)) * 10
                        > Len(first_chars(content, SAMPLE)))


\* the commands of a kind issued by the call
Issued(kind) == { k \in 1..Len(rcmds) : rcmds[k][1] = kind }

\* the raw read of the call succeeded
RawRead == \E k \in Issued("cat") : rcmds[k][2] = "ok"

\* the conversion command delivered output that validates
Converted ==
    /\ \E k \in Issued("iconv") : rcmds[k][2] = "ok"
    /\ check_file_encoding(from_utf8_lossy(iconv_output)) = "ok"

\* C26: read_remote_file and read_wsl_file issue no transcode command when
\* the raw content validates and exactly one GBK-to-UTF-8 transcode command
\* when it does not; they return the converted text if that validates, and
\* otherwise (the command failed or its output is still invalid) an error
\* that contains the manual iconv command.
C26_OneTranscodeOrRemedy ==
    (rop = "read" /\ rpc = "done" /\ RawRead)
        => IF check_file_encoding(Raw) = "ok"
           THEN Issued("iconv") = {} /\ rret = ROk(Raw)
           ELSE /\ Cardinality(Issued("iconv")) = 1
                /\ IF Converted
                   THEN rret = ROk(from_utf8_lossy(iconv_output))
                   ELSE rret.tag = "Err" /\ rret.remedy

\* C27: for every valid UTF-8 string s that is not empty or whitespace-only,
\* write_remote_file(path, s) followed by read_remote_file(path) on a healthy
\* session returns exactly s, strings made mostly of non-ASCII characters
\* included.
C27_WriteReadRoundTrip ==
    (/\ rop = "write_read" /\ rpc = "done"
     /\ \E i \in 1..Len(content) : ~IsWhitespace(content[i])
     /\ \A k \in Issued("write") \cup Issued("cat") : rcmds[k][2] = "ok")
        => rret = ROk(content)

-----------------------------------------------------------------------------
(* Claims about the removal of remote-only skills (SpecBoth).              *)

\* in the log lg, the link of n under every tool directory that supports
\* skills is removed, then the central copy of n, and nothing else is done
\* to n afterwards
FullyRemoved(lg, n) ==
    \E k \in 1..Len(lg) :
        /\ lg[k][1] = "rm_central" /\ lg[k][2] = n
        /\ \A t \in SkillTools :
              \E j \in 1..(k - 1) : lg[j][1] = "rm_link" /\ lg[j][2] = n /\ lg[j][3] = t
        /\ \A j \in 1..Len(lg) : (j # k /\ lg[j][2] = n) => (j < k /\ lg[j][1] = "rm_link")

\* no operation on n in the log lg
Untouched(lg, n) == \A k \in 1..Len(lg) : lg[k][2] # n

Listed(lg) == lg[1] = Ev("list", 0, "", "ok")

\* C28 as stated: for every entry of the remote central directory whose name
\* is not a local skill name, the step before the loop issues the removal of
\* its link under every tool directory and afterwards of its central copy;
\* no other name is removed by this step.  For both reconcilers.
C28_RemoteOnlyRemoved ==
    [][ /\ (spc = "idle" /\ spc' = "loop") =>
              \A n \in Names :
                  IF central[n] # NoDir /\ n \notin local_skill_names
                  THEN FullyRemoved(log', n) ELSE Untouched(log', n)
        /\ (w_pc = "idle" /\ w_pc' = "loop") =>
              \A n \in Names :
                  IF w_central[n] # NoDir /\ n \notin local_skill_names
                  THEN FullyRemoved(w_log', n) ELSE Untouched(w_log', n)
      ]_vars

\* C28 amended: the same for every entry that the listing of the remote
\* central directory returned; when the listing fails it counts as empty and
\* nothing is removed.
C28_ListedRemoteOnlyRemoved ==
    [][ /\ (spc = "idle" /\ spc' = "loop") =>
              \A n \in Names :
                  IF Listed(log') /\ central[n] # NoDir /\ n \notin local_skill_names
                  THEN FullyRemoved(log', n) ELSE Untouched(log', n)
        /\ (w_pc = "idle" /\ w_pc' = "loop") =>
              \A n \in Names :
                  IF Listed(w_log') /\ w_central[n] # NoDir /\ n \notin local_skill_names
                  THEN FullyRemoved(w_log', n) ELSE Untouched(w_log', n)
      ]_vars

\* both reconcilers have removed remote-only skill 2 and kept local skill 1
C28_Witness ==
    /\ spc = "loop" /\ w_pc = "loop" /\ idx = 1
    /\ local_skill_names = {1}
    /\ FullyRemoved(log, 2) /\ FullyRemoved(w_log, 2)
    /\ central[2] = NoDir /\ central[1] # NoDir
    /\ w_central[2] = NoDir /\ w_central[1] # NoDir

-----------------------------------------------------------------------------
(* Claims about what sync_mappings touches (SpecMappings).                 *)

\* how often mapping i occurs in the three lists of the result
Occurrences(i) ==
    Cardinality({ k \in 1..Len(sync_result.synced_files) : sync_result.synced_files[k] = i })
    + Cardinality({ k \in 1..Len(sync_result.skipped_files) : sync_result.skipped_files[k] = i })
    + Cardinality({ k \in 1..Len(sync_result.errors) : sync_result.errors[k] = i })

\* C29: sync_mappings calls the sync operation only for mappings that are
\* enabled and, when a module filter is given, whose module equals the
\* filter; the other mappings cause no operation and appear in none of
\* synced_files, skipped_files and errors; every attempted mapping
\* contributes to exactly one of the three lists; success is true if and
\* only if errors is empty.
C29_OnlySelectedTouched ==
    /\ \A i \in 1..Len(mappings) :
          IF mappings[i].enabled
             /\ (module_filter = "none" \/ mappings[i].module = module_filter)
          THEN Occurrences(i) = Cardinality(AttemptsOf(i))
          ELSE AttemptsOf(i) = {} /\ Occurrences(i) = 0
    /\ \A k \in 1..Len(attempted) : Occurrences(attempted[k][1]) = 1
    /\ mpc = "done" => (sync_result.success <=> sync_result.errors = <<>>)

\* a finished call with a disabled mapping, one of another module, and one
\* that was attempted and failed
C29_Witness ==
    /\ mpc = "done" /\ module_filter # "none"
    /\ \E i \in 1..Len(mappings) : ~mappings[i].enabled
    /\ \E i \in 1..Len(mappings) :
          mappings[i].enabled /\ mappings[i].module # module_filter
    /\ Len(attempted) = 1 /\ sync_result.errors # <<>> /\ ~sync_result.success

-----------------------------------------------------------------------------
(* Claims about the order of upload and marker write (SpecBoth).           *)

\* in the log lg every marker write directly follows the successful
\* sync_directory of the same skill, and no skill whose sync_directory failed
\* has a marker write
MarkerAfterUpload(lg) ==
    /\ \A k \in 1..Len(lg) :
          lg[k][1] = "write_marker"
             => k > 1 /\ lg[k - 1] = Ev("sync_directory", lg[k][2], "", "ok")
    /\ \A j, k \in 1..Len(lg) :
          lg[j] = Ev("sync_directory", lg[k][2], "", "fail")
             => lg[k][1] # "write_marker"

\* C30: in both skills reconcilers the marker of a skill is written only
\* after that skill's directory upload and swap completed successfully in
\* the same run: no run writes a marker for a skill whose sync_directory
\* failed, and the marker write never precedes the upload.
C30_MarkerOnlyAfterUpload ==
    MarkerAfterUpload(log) /\ MarkerAfterUpload(w_log)

\* a run in which skill 1's upload failed and skill 2's marker was written
C30_Witness ==
    /\ spc = "idle" /\ history # <<>>
    /\ \E k \in 1..Len(log) : log[k] = Ev("sync_directory", 1, "", "fail")
    /\ \E k \in 1..Len(log) : log[k][1] = "write_marker" /\ log[k][2] = 2
    /\ \E k \in 1..Len(w_log) : w_log[k] = Ev("sync_directory", 1, "", "fail")

-----------------------------------------------------------------------------
(* Claims about the upload phase and the temporary path of sync_directory  *)
(* (SpecSync).                                                             *)

\* the call is in its upload phase, or has returned the upload's error: the
\* swap command of this call was not sent
BeforeSwap ==
    /\ op = "sync_directory" /\ backend = "ssh"
    /\ \/ pc \in {"upload", "uploading"}
       \/ pc = "done" /\ result = Err("Upload")

\* C31: while the upload phase of sync_directory runs, and after it failed
\* (the swap command was not sent), the remote target directory is exactly
\* what it was before the call.
C31_FailedUploadLeavesTarget ==
    BeforeSwap => target = preTree

\* the expanded path names the filesystem root or the home directory
IsRootOrHome(path) ==
    path # <<>> /\ trim_end_slashes(path) \in {<<>>, HOME}

\* the paths the rm -rf commands issued so far remove
RmTargets ==
    { cmds[k].path : k \in { j \in 1..Len(cmds) :
                               cmds[j].sh \in {"rm_rf", "rm_rf_and_mv"} } }

\* C33: for a remote path accepted by the safety check of sync_directory or
\* remove_remote_path, no rm -rf issued by the operation targets a path
\* that, expanded and without trailing slashes, is the filesystem root or the
\* home directory.
C33_NoRmOfRootOrHome ==
    (/\ backend = "ssh" /\ op \in {"sync_directory", "remove"}
     /\ ~is_dangerous_path(remotePath))
        => \A p \in RmTargets : ~IsRootOrHome(p)

\* C34: after sync_directory returns, with success or with any error, nothing
\* is left at the temporary path the call created.
C34_NoTmpAfterReturn ==
    (op = "sync_directory" /\ backend = "ssh" /\ pc = "done")
        => tmp = Absent /\ (target # Absent => TmpEntry \notin target)

-----------------------------------------------------------------------------
(* Claims about the upload loop of sync_pattern_files (SpecSync).          *)

\* the uploads of the call, in the order they were made
Uploads == SelectSeq(cmds, LAMBDA c : c.kind = "sftp_file")

\* the tokens of the uploads that succeeded, in the order of the uploads
RECURSIVE TokensOfOk(_, _)
TokensOfOk(ups, f) ==
    IF ups = <<>> THEN <<>>
    ELSE (IF Head(ups).sh = "ok" THEN <<Token(f, remotePath)>> ELSE <<>>)
         \o TokensOfOk(Tail(ups), f + 1)

\* C32: in sync_pattern_files a failed upload of one match does not fail the
\* operation and does not keep the other matches from being uploaded: every
\* match is uploaded, in match order; the returned list holds exactly the
\* files whose upload succeeded, in match order; and all uploads use the one
\* file-transfer session the call opened.
C32_FailedUploadIsSkipped ==
    (/\ op = "sync_pattern_files" /\ backend = "ssh" /\ pc = "done"
     /\ Uploads # <<>>)
        => /\ result.tag = "Ok"
           /\ Len(Uploads) = NFiles
           /\ \A f \in Files : Uploads[f].path = remote_dest(f)
           /\ result.files = TokensOfOk(Uploads, 1)
           /\ Cardinality({ k \in 1..Len(cmds) :
                              cmds[k].sh = "create_sftp_session" }) = 1

\* the first match failed, the second was uploaded and is the one returned
C32_Witness ==
    /\ op = "sync_pattern_files" /\ backend = "ssh" /\ pc = "done"
    /\ Len(Uploads) = NFiles
    /\ Uploads[1].sh = "fail" /\ Uploads[2].sh = "ok"
    /\ result.tag = "Ok" /\ Token(2, remotePath) = result.files[1]
    /\ <<2, "new">> \in target

-----------------------------------------------------------------------------
(* Claims about the session between calls (SpecSession).                   *)

\* C35: between calls the session holds a handle if and only if its status is
\* Connected (none is held when the status is Disconnected or Failed), and a
\* connection record is stored whenever the status is Connected or Failed.
C35_HandleIffConnectedBetweenCalls ==
    Returned =>
        /\ handle # "none" <=> status.tag = "Connected"
        /\ status.tag \in {"Disconnected", "Failed"} => handle = "none"
        /\ status.tag \in {"Connected", "Failed"} => conn # NoConn

\* a connect attempt failed: Failed, no handle, the attempted record stored
C35_Witness ==
    /\ Returned /\ call.name = "connect" /\ ret.tag = "Err"
    /\ status.tag = "Failed" /\ handle = "none" /\ conn = call.arg

\* the last call was connect(B), made while the session held a handle to a
\* different target A, and it failed
FailedSwitch ==
    /\ Returned /\ call.name = "connect" /\ ret.tag = "Err"
    /\ call.conn0 # NoConn /\ call.handle0 # "none"
    /\ call.conn0.id # call.arg.id

\* C37: when connect(B) fails while the session was connected to a different
\* target A, the session ends with status Failed, no handle and B stored; an
\* ensure_connected() that follows works on B, never on A, and while it
\* reconnects the stored record is the one it connects to.
C37_FailedSwitchKeepsNewTarget ==
    /\ [](FailedSwitch =>
            /\ status.tag = "Failed"
            /\ handle = "none"
            /\ conn = call.arg)
    /\ []((call.name = "ensure_connected"
             /\ callPc \in {"do_connect", "authenticate"})
            => conn = call.arg)
    /\ [][(FailedSwitch /\ ncalls' = ncalls + 1
             /\ call'.name = "ensure_connected")
            => /\ call'.arg = call.arg
               /\ call'.arg.id # call.conn0.id
               /\ callPc' = "connecting"]_vars

C37_Witness ==
    /\ FailedSwitch /\ call.handle0 = "open"
    /\ status.tag = "Failed" /\ conn.id # call.conn0.id

-----------------------------------------------------------------------------
(* Claims about release_sync_lock (SpecLockApi).                           *)

\* C36: release_sync_lock() is unconditional and carries no ownership: called
\* by any caller, including one whose last try_acquire_sync_lock() returned
\* false or who never tried, it leaves the flag clear, and a
\* try_acquire_sync_lock() made while the flag is clear returns true and sets
\* it.
C36_ReleaseIsUnconditional ==
    /\ [][\A c \in Callers : call_release(c) => syncing' = FALSE]_vars
    /\ [][\A c \in Callers :
            (syncing = FALSE /\ call_try_acquire(c))
                => (lastTry'[c] = "true" /\ syncing' = TRUE)]_vars
    /\ [](\A c \in Callers :
            (callerPc[c] = "released" /\ \A d \in Callers : callerPc[d] # "tried")
                => syncing = FALSE)

\* d took the lock, c was refused and released all the same, then e took it
C36_Witness ==
    \E c, d, e \in Callers :
        /\ d # e
        /\ callerPc[c] = "released" /\ lastTry[c] = "false"
        /\ callerPc[d] = "tried" /\ lastTry[d] = "true"
        /\ callerPc[e] = "tried" /\ lastTry[e] = "true"
        /\ syncing = TRUE

-----------------------------------------------------------------------------
(* Claims about skills without a local source (SpecBoth).                  *)

\* the names of the local skills whose source directory does not exist
Missing ==
    { skills[i].name : i \in { j \in 1..Len(skills) : ~skills[j].source_exists } }

\* in the log lg the skill n appears in skip events only
OnlySkipped(lg, n) ==
    \A k \in 1..Len(lg) : lg[k][2] = n => lg[k][1] = "skip"

\* C38: a local skill whose source directory does not exist is skipped
\* entirely by both reconcilers: no upload, marker read or write, symlink
\* creation or removal is made for it and no error is recorded for it; its
\* remote central copy, marker and symlinks stay as they are, in the removal
\* phase too, because its name is in the local skill-name set.
C38_MissingSourceSkipped ==
    /\ [](\A n \in Missing :
            /\ OnlySkipped(log, n) /\ OnlySkipped(w_log, n)
            /\ ~InSeq(n, all_errors))
    /\ [][\A n \in Missing :
            /\ central'[n] = central[n] /\ marker'[n] = marker[n]
            /\ w_central'[n] = w_central[n] /\ w_marker'[n] = w_marker[n]
            /\ \A t \in SkillTools :
                 /\ links'[<<n, t>>] = links[<<n, t>>]
                 /\ w_links'[<<n, t>>] = w_links[<<n, t>>]]_vars

\* a run over a mirrored remote has skipped such a skill on both sides
C38_Witness ==
    /\ spc = "idle" /\ history # <<>>
    /\ \E n \in Missing :
         /\ central[n] = "old" /\ w_central[n] = "old"
         /\ \E k \in 1..Len(log) : log[k] = Ev("skip", n, "", "ok")
         /\ \E k \in 1..Len(w_log) : w_log[k] = Ev("skip", n, "", "ok")

-----------------------------------------------------------------------------
(* Claims about sync_mcp_to_ssh_claude (SpecMcp).                          *)

\* the file as its author wrote it, whatever encoding it was saved in
Decoded(f) == [i \in 1..Len(f) |-> IF f[i] = GBK_NI THEN NI ELSE f[i]]

\* the top-level members of a remote file; none when it is missing, blank
\* or no JSON object
TopLevel(f) ==
    IF f = NoFile THEN <<>>
    ELSE LET v == json5_from_str(Decoded(f))
         IN  IF v.kind = "object" THEN v.members ELSE <<>>

\* every top-level member of f other than mcpServers is in g, with its value
OtherKeysPreserved(f, g) ==
    \A k \in DOMAIN TopLevel(f) \ {"mcpServers"} :
        k \in DOMAIN TopLevel(g) /\ TopLevel(g)[k] = TopLevel(f)[k]

\* the call returned an error of the read, of the encoding repair, of the
\* parser or of the object test
FailedBeforeWrite ==
    /\ rpc = "done" /\ rret.tag = "Err"
    /\ rret.text[1] \in {"read", "convert_failed", "parse", "not_object"}

\* C39: sync_mcp_to_ssh_claude replaces only the mcpServers member of the
\* remote ~/.claude.json and preserves every other top-level key, at every
\* step of the call; when the read fails, the encoding cannot be repaired,
\* the text does not parse or is not an object, no write is issued and the
\* file is unchanged.
C39_OnlyMcpServersReplaced ==
    /\ [](rop = "mcp" /\ FailedBeforeWrite => Issued("write") = {})
    /\ [][rop = "mcp" =>
            /\ OtherKeysPreserved(file, file')
            /\ (Issued("write")' = {} => file' = file)]_vars

-----------------------------------------------------------------------------
(* Claims about the auto-backup scheduler (SpecBackup).                    *)

\* C40: last_auto_backup_time is updated only by a check whose backup upload
\* or write succeeded, to the time of that check; a check whose backup
\* failed or did not run (not due, disabled, no destination) leaves it
\* unchanged, so the check after a failed backup attempts the backup again;
\* a cleanup failure neither undoes the update nor fails the check.
C40_TimeUpdatedOnlyAfterBackup ==
    /\ [][last_auto_backup_time' # last_auto_backup_time
            => /\ Len(b_log') = Len(b_log) + 1
               /\ Last(b_log').backup = "ok"
               /\ last_auto_backup_time' = <<to_rfc3339(b_now)>>]_vars
    /\ [](\A k \in 1..Len(b_log) :
            /\ b_log[k].backup # "ok" => b_log[k].after = b_log[k].before
            /\ b_log[k].cleanup = "fail"
                 => /\ b_log[k].ret = "Ok"
                    /\ b_log[k].update = "ok"
                         => b_log[k].after = <<to_rfc3339(b_log[k].time)>>
            /\ (k < Len(b_log) /\ b_log[k].backup = "fail"
                  /\ b_log[k + 1].read = "ok")
                 => b_log[k + 1].backup # "none")

\* a failed backup, then the next check backs up, stores the time, and its
\* cleanup fails
C40_Witness ==
    /\ Len(b_log) = 2
    /\ b_log[1].backup = "fail" /\ b_log[1].ret = "Err"
    /\ b_log[2].backup = "ok" /\ b_log[2].cleanup = "fail" /\ b_log[2].ret = "Ok"
    /\ last_auto_backup_time = <<to_rfc3339(b_log[2].time)>>
====
